---- MODULE Spec2Model ----
(***************************************************************************)
(* Model of the pricing-and-decision core of the Kalshi trading bots       *)
(* (BTC hourly, ETH, XRP, BTC range): the Kelly position sizer, the        *)
(* per-invocation lambda_handler decision flow and the shared hour         *)
(* exposure record kept in the CryptoPositions table; and of the programs  *)
(* around them: the SOXS backtest, the probability models, the price       *)
(* history cleanup, the weather bot's budget and the volatility API.       *)
(*                                                                         *)
(* Python floats are modelled as exact rationals <<numerator, denominator>>*)
(* in lowest terms with a positive denominator; None is the empty tuple    *)
(* and a returned value v is the one-element tuple <<v>>.                  *)
(***************************************************************************)
EXTENDS Integers, Sequences, FiniteSets, TLC

VARIABLES
    kelly_call,     \* sizer specification: the arguments and result of one call
    env,            \* the event, the clock and the collaborators' answers of an invocation
    pc,             \* "start" before the invocation of env has run, "done" after it
    positions,      \* the CryptoPositions item of the hour key (None when absent)
    orders,         \* the orders Kalshi accepted, oldest first
    trade_log,      \* the records put in the bots' trade-log tables, oldest first
    outcome,        \* the response and the collaborator calls of the last invocation
    invocations,    \* the number of invocations run so far
    call,           \* model specification: the arguments and result of one function call
    bt,             \* the local variables of run_backtest between two days of its loop
    store,          \* the items of a price-history table and the cleanup's progress
    weather,        \* the weather bot's orders on Kalshi and its invocations of a day
    procs,          \* the local variables of two overlapping invocations of one bot
    dash            \* the dashboard's container: its clock, Kalshi's open events, the contract cache

vars == <<kelly_call, env, pc, positions, orders, trade_log, outcome, invocations,
          call, bt, store, weather, procs, dash>>

(***************************************************************************)
(* Exact arithmetic standing for the float operators + - * / < <= max min  *)
(* and int().                                                              *)
(***************************************************************************)
None == <<>>

Some(v) == <<v>>

Abs(n) == IF n < 0 THEN 0 - n ELSE n

RECURSIVE GCD(_, _)
GCD(a, b) == IF b = 0 THEN a ELSE GCD(b, a % b)

\* n/d in lowest terms, d > 0
R(n, d) ==
    LET g == GCD(Abs(n), d)
    IN  IF g = 0 THEN <<0, 1>> ELSE <<n \div g, d \div g>>

RInt(n) == <<n, 1>>

RAdd(x, y) ==
    LET g == GCD(x[2], y[2])
        l == (x[2] \div g) * y[2]
    IN  R(x[1] * (l \div x[2]) + y[1] * (l \div y[2]), l)

RNeg(x) == <<0 - x[1], x[2]>>

RSub(x, y) == RAdd(x, RNeg(y))

RMul(x, y) ==
    LET g1 == GCD(Abs(x[1]), y[2])
        g2 == GCD(Abs(y[1]), x[2])
        a1 == IF g1 = 0 THEN 0 ELSE x[1] \div g1
        d2 == IF g1 = 0 THEN 1 ELSE y[2] \div g1
        a2 == IF g2 = 0 THEN 0 ELSE y[1] \div g2
        d1 == IF g2 = 0 THEN 1 ELSE x[2] \div g2
    IN  R(a1 * a2, d1 * d2)

\* x / y for y # 0
RDiv(x, y) ==
    IF y[1] > 0 THEN RMul(x, <<y[2], y[1]>>)
    ELSE RMul(x, <<0 - y[2], 0 - y[1]>>)

RLt(x, y) == x[1] * y[2] < y[1] * x[2]

RLe(x, y) == x[1] * y[2] <= y[1] * x[2]

RMin(x, y) == IF RLe(x, y) THEN x ELSE y

RMax(x, y) == IF RLe(y, x) THEN x ELSE y

\* Python int(x): truncation toward zero
RTrunc(x) == IF x[1] >= 0 THEN x[1] \div x[2] ELSE 0 - ((0 - x[1]) \div x[2])

IMin(a, b) == IF a <= b THEN a ELSE b

IMax(a, b) == IF a >= b THEN a ELSE b

(***************************************************************************)
(* Configuration constants of the four bots.                               *)
(***************************************************************************)
BTC_MAX_KELLY_FRACTION == R(25, 100)

ETH_MAX_KELLY_FRACTION == R(15, 100)

XRP_MAX_KELLY_FRACTION == R(10, 100)

RANGE_MAX_KELLY_FRACTION == R(10, 100)

MAX_CONTRACTS == 999

(***************************************************************************)
(* Faulty variants of the sizer, used to show that the sizer properties    *)
(* depend on its clamp, its rounding and its price guard.                  *)
(***************************************************************************)
\* the fraction is floored at 0 but not capped
calculate_kelly_bet_no_cap(win_prob, market_no_price, bankroll, cap) ==
    IF market_no_price <= 0 \/ market_no_price >= 100 THEN None
    ELSE
        LET profit_cents == 100 - market_no_price
            b == R(profit_cents, market_no_price)
            q == RSub(RInt(1), win_prob)
            raw == RDiv(RSub(RMul(b, win_prob), q), b)
            kelly_fraction == RMax(RInt(0), raw)
            bet_amount == RMul(bankroll, kelly_fraction)
            num_contracts ==
                IMin(RTrunc(RDiv(bet_amount, R(market_no_price, 100))), MAX_CONTRACTS)
        IN  Some([kelly_fraction |-> kelly_fraction,
                  bet_amount |-> bet_amount,
                  num_contracts |-> num_contracts,
                  risk_dollars |-> R(num_contracts * market_no_price, 100),
                  potential_profit |-> R(num_contracts * profit_cents, 100)])

\* the contract count is rounded to nearest instead of truncated
calculate_kelly_bet_rounding(win_prob, market_no_price, bankroll, cap) ==
    IF market_no_price <= 0 \/ market_no_price >= 100 THEN None
    ELSE
        LET profit_cents == 100 - market_no_price
            b == R(profit_cents, market_no_price)
            q == RSub(RInt(1), win_prob)
            raw == RDiv(RSub(RMul(b, win_prob), q), b)
            kelly_fraction == RMax(RInt(0), RMin(raw, cap))
            bet_amount == RMul(bankroll, kelly_fraction)
            num_contracts ==
                IMin(RTrunc(RAdd(RDiv(bet_amount, R(market_no_price, 100)), R(1, 2))),
                     MAX_CONTRACTS)
        IN  Some([kelly_fraction |-> kelly_fraction,
                  bet_amount |-> bet_amount,
                  num_contracts |-> num_contracts,
                  risk_dollars |-> R(num_contracts * market_no_price, 100),
                  potential_profit |-> R(num_contracts * profit_cents, 100)])

\* the price guard lets a NO price of 100 cents through
calculate_kelly_bet_late_guard(win_prob, market_no_price, bankroll, cap) ==
    IF market_no_price <= 0 \/ market_no_price > 100 THEN None
    ELSE
        LET profit_cents == 100 - market_no_price
            b == R(profit_cents, market_no_price)
            q == RSub(RInt(1), win_prob)
            raw == IF b[1] > 0 THEN RDiv(RSub(RMul(b, win_prob), q), b) ELSE RInt(0)
            kelly_fraction == RMax(RInt(0), RMin(raw, cap))
            bet_amount == RMul(bankroll, kelly_fraction)
            num_contracts ==
                IMin(RTrunc(RDiv(bet_amount, R(market_no_price, 100))), MAX_CONTRACTS)
        IN  Some([kelly_fraction |-> kelly_fraction,
                  bet_amount |-> bet_amount,
                  num_contracts |-> num_contracts,
                  risk_dollars |-> R(num_contracts * market_no_price, 100),
                  potential_profit |-> R(num_contracts * profit_cents, 100)])

(***************************************************************************)
(* calculate_kelly_bet: identical in the four bots up to the source of the *)
(* cap (MAX_KELLY_FRACTION, max_kelly, remaining_kelly_fraction).          *)
(***************************************************************************)
calculate_kelly_bet(win_prob, market_no_price, bankroll, cap) ==
    IF market_no_price <= 0 \/ market_no_price >= 100 THEN None
    ELSE
        LET profit_cents == 100 - market_no_price
            risk_cents == market_no_price
            b == R(profit_cents, risk_cents)
            p == win_prob
            q == RSub(RInt(1), win_prob)
            raw == IF b[1] > 0 THEN RDiv(RSub(RMul(b, p), q), b) ELSE RInt(0)
            kelly_fraction == RMax(RInt(0), RMin(raw, cap))
            bet_amount == RMul(bankroll, kelly_fraction)
            num_contracts ==
                IMin(RTrunc(RDiv(bet_amount, R(market_no_price, 100))), MAX_CONTRACTS)
        IN  Some([kelly_fraction |-> kelly_fraction,
                  bet_amount |-> bet_amount,
                  num_contracts |-> num_contracts,
                  risk_dollars |-> R(num_contracts * market_no_price, 100),
                  potential_profit |-> R(num_contracts * profit_cents, 100)])

btc_calculate_kelly_bet(win_prob, market_no_price, bankroll) ==
    calculate_kelly_bet(win_prob, market_no_price, bankroll, BTC_MAX_KELLY_FRACTION)

range_calculate_kelly_bet(win_prob, market_no_price, bankroll) ==
    calculate_kelly_bet(win_prob, market_no_price, bankroll, RANGE_MAX_KELLY_FRACTION)

eth_calculate_kelly_bet(win_prob, market_no_price, bankroll, remaining_kelly_fraction) ==
    calculate_kelly_bet(win_prob, market_no_price, bankroll, remaining_kelly_fraction)

xrp_calculate_kelly_bet(win_prob, market_no_price, bankroll, remaining_kelly_fraction) ==
    calculate_kelly_bet(win_prob, market_no_price, bankroll, remaining_kelly_fraction)

(***************************************************************************)
(* Fixed-point stand-ins for math.sqrt and math.exp and the normal-CDF     *)
(* approximation built on them.  Probabilities, t and the polynomial are   *)
(* held in units of 1/FP; a z-score is held in thousandths.                *)
(***************************************************************************)
FP == 100 * 100

RECURSIVE ISqrtBetween(_, _, _)
\* the largest r in lo..hi with r * r <= x, given lo * lo <= x
ISqrtBetween(lo, hi, x) ==
    IF lo >= hi THEN lo
    ELSE LET mid == (lo + hi + 1) \div 2
         IN  IF mid * mid <= x THEN ISqrtBetween(mid, hi, x)
             ELSE ISqrtBetween(lo, mid - 1, x)

\* math.sqrt(minutes / 15) in units of 1/FP
sqrt_minutes_over_15(minutes) == ISqrtBetween(0, 4 * FP, ((minutes * FP) \div 15) * FP)

\* exp(-i) for whole i, in units of 1/FP
ExpNegWhole(i) ==
    IF i > 9 THEN 0
    ELSE <<10000, 3679, 1353, 498, 183, 67, 25, 9, 3, 1>>[i + 1]

RECURSIVE ExpNegSeries(_, _)
\* the alternating series of exp(-f), 0 <= f < 1, from term k on (Horner form)
ExpNegSeries(f, k) ==
    IF k > 9 THEN FP
    ELSE FP - (f * ExpNegSeries(f, k + 1)) \div (k * FP)

\* math.exp(-x) for x >= 0 in units of 1/FP
exp_neg(x) == (ExpNegWhole(x \div FP) * ExpNegSeries(x % FP, 1)) \div FP

norm_cdf(z) ==
    IF z < 0 - 6000 THEN 0
    ELSE IF z > 6000 THEN FP
    ELSE LET t == (FP * FP) \div (FP + (2316 * Abs(z)) \div 1000)
             d == (3989 * exp_neg((z * z) \div 200)) \div FP
             a4 == 0 - 18213 + (t * 13303) \div FP
             a3 == 17815 + (t * a4) \div FP
             a2 == 0 - 3566 + (t * a3) \div FP
             a1 == 3194 + (t * a2) \div FP
             p == ((((d * t) \div FP) * a1) \div FP)
         IN  IF z > 0 THEN FP - p ELSE p

\* (strike - price) / price * 100 / vol_scaled in thousandths, for a volatility
\* vol_std_pct in hundredths of a percent and sqrt_scale in units of 1/FP
std_devs(price, strike, vol_std_pct, sqrt_scale) ==
    LET vol_scaled == (vol_std_pct * sqrt_scale) \div 100
        price_diff_pct == ((strike - price) * 1000000) \div price
    IN  IF vol_scaled > 0 THEN (price_diff_pct * 1000) \div vol_scaled ELSE 0

(***************************************************************************)
(* Configuration of the BTC hourly bot (btc_lambda_function.py).           *)
(***************************************************************************)
BTC_MIN_BPS_ABOVE == 20

BTC_MIN_EDGE_PCT == 3

BTC_MIN_NO_PRICE == 50

BTC_MAX_NO_PRICE == 99

BTC_MIN_PROFIT_PCT == 9

\* hundredths of a percent: 11.0%
BTC_MAX_VOLATILITY_PCT == 1100

BTC_MIN_BALANCE == RInt(1)

BTC_WINDOW_START == 45

\* an assignment statement: the right-hand side is computed once and the
\* rest of the function body reads the value
Bind(value, rest(_)) == CHOOSE r \in {rest(v) : v \in {value}} : TRUE

(***************************************************************************)
(* What an invocation returns and which collaborators it called.  Every    *)
(* handler result is built by overriding Quiet.                            *)
(***************************************************************************)
Quiet ==
    [status_code |-> 0,             \* the response's statusCode
     status |-> "",                 \* the body's 'status' ("" when it has none)
     error |-> FALSE,               \* the body has an 'error'
     raised |-> FALSE,              \* an exception left lambda_handler
     create_order_calls |-> 0,      \* calls of KalshiClient.create_order
     submitted |-> <<>>,            \* the orders create_order accepted
     logged |-> <<>>,               \* the records log_trade stored
     item |-> None,                 \* Some(item) when the hour item was put
     vol_samples |-> None,          \* the sample count the handler read
     ticker |-> None,               \* the ticker of the chosen market
     no_ask |-> None,               \* the NO ask of the chosen market
     model_prob |-> None,           \* the win probability of the model
     min_edge |-> None,             \* the edge threshold applied
     kelly_called |-> FALSE,        \* calculate_kelly_bet was called to size the bet
     kelly |-> None,                \* the result of that sizing call
     hypothetical_kelly |-> None]   \* the result of ETH's logging-only sizing call

Return(code, status, trace) == [status_code |-> code, status |-> status] @@ trace @@ Quiet

ReturnError(trace) == [status_code |-> 500, error |-> TRUE] @@ trace @@ Quiet

\* the exception leaves the handler instead of becoming a response
handler_reraise(trace) == [raised |-> TRUE] @@ trace @@ Quiet

\* the except clause closing every lambda_handler: any exception raised in the
\* body becomes a 500 response carrying 'error'
handler_except(trace) == ReturnError(trace)

(***************************************************************************)
(* Helpers shared by the hourly bots.                                      *)
(***************************************************************************)
RECURSIVE insert_by_strike(_, _)
insert_by_strike(sorted, m) ==
    IF sorted = <<>> THEN <<m>>
    ELSE IF m.floor_strike < Head(sorted).floor_strike THEN <<m>> \o sorted
    ELSE <<Head(sorted)>> \o insert_by_strike(Tail(sorted), m)

RECURSIVE sort_by_strike(_)
\* parsed_markets.sort(key = floor_strike): stable, ascending
sort_by_strike(markets) ==
    IF markets = <<>> THEN <<>>
    ELSE insert_by_strike(sort_by_strike(SubSeq(markets, 1, Len(markets) - 1)),
                          markets[Len(markets)])

RECURSIVE find_target_strike_or_last(_, _, _)
\* falls back to the last market when no strike is far enough above the price
find_target_strike_or_last(markets, price, min_bps) ==
    IF markets = <<>> THEN None
    ELSE LET strike == Head(markets).floor_strike
         IN  IF Len(markets) = 1
                \/ (strike # 0 /\ strike * 10000 >= price * (10000 + min_bps))
             THEN Some(Head(markets))
             ELSE find_target_strike_or_last(Tail(markets), price, min_bps)

RECURSIVE find_target_strike(_, _, _)
\* the first market whose strike is at least min_bps basis points above price
find_target_strike(markets, price, min_bps) ==
    IF markets = <<>> THEN None
    ELSE LET strike == Head(markets).floor_strike
         IN  IF strike # 0 /\ strike * 10000 >= price * (10000 + min_bps)
             THEN Some(Head(markets))
             ELSE find_target_strike(Tail(markets), price, min_bps)

\* a stored trade-log record (the fields the properties read)
LogRecord(bot, ticker, count, price, status) ==
    [bot |-> bot, ticker |-> ticker, count |-> count, price |-> price, status |-> status]

\* log_trade: put_item in the bot's trade-log table; a failing store is
\* printed and swallowed
log_trade(record, log_ok) == IF log_ok THEN <<record>> ELSE <<>>

\* a failed submission is tried a second time before it is logged
execute_no_trade_retry(bot, ticker, count, price, kelly_fraction, order_ok, log_ok) ==
    IF order_ok
    THEN [result |-> Some([ticker |-> ticker, count |-> count, price_cents |-> price]),
          create_order_calls |-> 1,
          submitted |-> <<[bot |-> bot, ticker |-> ticker, count |-> count,
                           price |-> price, kelly_fraction |-> kelly_fraction]>>,
          logged |-> log_trade(LogRecord(bot, ticker, count, price, "placed"), log_ok)]
    ELSE [result |-> None,
          create_order_calls |-> 2,
          submitted |-> <<>>,
          logged |-> log_trade(LogRecord(bot, ticker, count, price, "failed"), log_ok)]

\* execute_no_trade: one create_order call, then one log_trade call
execute_no_trade(bot, ticker, count, price, kelly_fraction, order_ok, log_ok) ==
    IF order_ok
    THEN [result |-> Some([ticker |-> ticker, count |-> count, price_cents |-> price]),
          create_order_calls |-> 1,
          submitted |-> <<[bot |-> bot, ticker |-> ticker, count |-> count,
                           price |-> price, kelly_fraction |-> kelly_fraction]>>,
          logged |-> log_trade(LogRecord(bot, ticker, count, price, "placed"), log_ok)]
    ELSE [result |-> None,
          create_order_calls |-> 1,
          submitted |-> <<>>,
          logged |-> log_trade(LogRecord(bot, ticker, count, price, "failed"), log_ok)]

\* the ratio of risk to profit instead of profit to risk
profit_pct_inverted(c) == RMul(R(c, 100 - c), RInt(100))

\* (100 - c) / c * 100
profit_pct(c) == RMul(R(100 - c, c), RInt(100))

\* (model_prob - c / 100) * 100
edge_pct(model_prob, c) == RMul(RSub(model_prob, R(c, 100)), RInt(100))

(***************************************************************************)
(* BTC hourly bot.                                                         *)
(***************************************************************************)
\* (vol_std, window, samples) of the window matching the time remaining
get_dynamic_volatility(vol_data, minutes_to_settlement) ==
    LET window == IF minutes_to_settlement >= 15 THEN 15
                  ELSE IF minutes_to_settlement >= 12 THEN 12
                  ELSE IF minutes_to_settlement >= 10 THEN 10
                  ELSE IF minutes_to_settlement >= 7 THEN 7
                  ELSE 5
    IN  [vol_std |-> vol_data[window].std, window |-> window,
         samples |-> vol_data[window].samples]

btc_calculate_model_probability(btc_price, strike_price, vol_std_pct, minutes_to_settlement) ==
    IF vol_std_pct <= 0 \/ minutes_to_settlement <= 0 THEN None
    ELSE Some(R(norm_cdf(std_devs(btc_price, strike_price, vol_std_pct,
                                  sqrt_minutes_over_15(minutes_to_settlement))), FP))

btc_lambda_handler(e) ==
    LET current_minute == e.minute
        minutes_to_hour == 60 - current_minute
    IN
    IF current_minute < BTC_WINDOW_START /\ ~e.force
    THEN Return(200, "outside_trading_window", <<>>)
    ELSE IF e.balance = None THEN Return(500, "balance_error", <<>>)
    ELSE IF RLt(e.balance[1], BTC_MIN_BALANCE) THEN Return(200, "insufficient_funds", <<>>)
    ELSE IF e.vol_data = None THEN Return(200, "insufficient_vol_data", <<>>)
    ELSE
    LET bankroll == e.balance[1]
        dyn == get_dynamic_volatility(e.vol_data[1], minutes_to_hour)
        min_samples == IMax(3, dyn.window \div 2)
        t1 == [vol_samples |-> Some(dyn.samples)]
    IN
    IF dyn.samples < min_samples THEN Return(200, "insufficient_vol_data", t1)
    ELSE IF dyn.vol_std >= BTC_MAX_VOLATILITY_PCT THEN Return(200, "volatility_stop", t1)
    ELSE IF e.price = None THEN ReturnError(t1)
    ELSE IF e.markets = <<>> THEN Return(200, "no_markets", t1)
    ELSE
    Bind(find_target_strike(sort_by_strike(e.markets), e.price[1], BTC_MIN_BPS_ABOVE),
         LAMBDA target :
    IF target = None THEN Return(200, "no_target", t1)
    ELSE
    LET target_market == target[1]
        strike_price == target_market.floor_strike
        t2 == [ticker |-> Some(target_market.ticker), no_ask |-> target_market.no_ask] @@ t1
    IN
    \* a null no_ask makes the bounds comparison raise TypeError
    IF target_market.no_ask = None THEN handler_except(t2)
    ELSE
    LET market_no_price == target_market.no_ask[1]
    IN
    IF market_no_price < BTC_MIN_NO_PRICE \/ market_no_price > BTC_MAX_NO_PRICE
    THEN Return(200, "price_out_of_bounds", t2)
    ELSE
    Bind(btc_calculate_model_probability(e.price[1], strike_price, dyn.vol_std, dyn.window),
         LAMBDA model :
    IF model = None THEN Return(200, "model_error", t2)
    ELSE
    LET model_prob == model[1]
        t3 == [model_prob |-> model, min_edge |-> Some(BTC_MIN_EDGE_PCT)] @@ t2
    IN
    IF RLt(edge_pct(model_prob, market_no_price), RInt(BTC_MIN_EDGE_PCT))
    THEN Return(200, "insufficient_edge", t3)
    ELSE
    Bind(btc_calculate_kelly_bet(model_prob, market_no_price, bankroll),
         LAMBDA kelly :
    LET t4 == [kelly_called |-> TRUE, kelly |-> kelly] @@ t3
    IN
    IF kelly = None \/ kelly[1].num_contracts < 1 THEN Return(200, "bet_too_small", t4)
    ELSE IF RLt(profit_pct(market_no_price), RInt(BTC_MIN_PROFIT_PCT))
    THEN Return(200, "insufficient_profit", t4)
    ELSE
    Bind(execute_no_trade("btc", target_market.ticker, kelly[1].num_contracts,
                          market_no_price, kelly[1].kelly_fraction, e.order_ok, e.log_ok),
         LAMBDA x :
    LET t5 == [create_order_calls |-> x.create_order_calls,
               submitted |-> x.submitted, logged |-> x.logged] @@ t4
    IN
    IF x.result # None THEN Return(200, "success", t5) ELSE ReturnError(t5)))))

(***************************************************************************)
(* Configuration of the ETH and XRP bots (eth_lambda_function.py,          *)
(* xrp_lambda_function.py).  Volatilities are in hundredths of a percent.  *)
(***************************************************************************)
ETH_MIN_BPS_ABOVE == 50

ETH_MIN_EDGE_PCT_EARLY == 12

ETH_MIN_EDGE_PCT_LATE == 4

ETH_MIN_VOLATILITY_PCT == 15

ETH_MIN_NO_PRICE == 50

ETH_MAX_NO_PRICE == 99

ETH_MIN_PROFIT_PCT == 4

ETH_MAX_VOLATILITY_PCT == 1000

XRP_MIN_BPS_ABOVE == 50

XRP_MIN_EDGE_PCT_EARLY == 12

XRP_MIN_EDGE_PCT_LATE == 4

XRP_MIN_VOLATILITY_PCT == 20

XRP_MIN_NO_PRICE == 50

XRP_MAX_NO_PRICE == 99

XRP_MIN_PROFIT_PCT == 4

XRP_MAX_VOLATILITY_PCT == 1500

\* the hourly bots' early window opens at :30, the late one at :45
EARLY_WINDOW_START == 30

LATE_WINDOW_START == 45

\* "Need at least 10 samples for reliable volatility"
MIN_VOL_SAMPLES == 10

\* MIN_BALANCE = 1.00 and the 1% of Kelly budget below which no trade is sized
HOURLY_MIN_BALANCE == RInt(1)

KELLY_EXHAUSTED_BELOW == R(1, 100)

(***************************************************************************)
(* The shared hour exposure item of the CryptoPositions table.  A stored   *)
(* exposure is a number of ten-thousandths (the code stores round(x, 4)).  *)
(***************************************************************************)
\* item.get(field, 0) as a float
item_get(item, field) == IF field \in DOMAIN item THEN R(item[field], 10000) ELSE RInt(0)

\* round(x, 4) in ten-thousandths, ties to even
round4(x) ==
    LET y == RMul(x, RInt(10000))
        fl == y[1] \div y[2]
        twice == 2 * (y[1] - fl * y[2])
    IN  IF twice > y[2] THEN fl + 1
        ELSE IF twice < y[2] THEN fl
        ELSE IF fl % 2 = 0 THEN fl ELSE fl + 1

eth_get_hour_positions(stored, read_ok) ==
    IF ~read_ok \/ stored = None
    THEN [btc_exposure |-> RInt(0), eth_exposure |-> RInt(0), total_exposure |-> RInt(0)]
    ELSE LET btc == item_get(stored[1], "btc_exposure")
             eth == item_get(stored[1], "eth_exposure")
         IN  [btc_exposure |-> btc, eth_exposure |-> eth, total_exposure |-> RAdd(btc, eth)]

\* the item put by ETH's update_hour_position (None when the put fails)
eth_update_hour_position(stored, asset, exposure_fraction, read_ok, put_ok) ==
    LET current == eth_get_hour_positions(stored, read_ok)
        new_eth == IF asset = "eth" THEN RAdd(current.eth_exposure, exposure_fraction)
                   ELSE current.eth_exposure
        new_btc == IF asset = "eth" THEN current.btc_exposure
                   ELSE RAdd(current.btc_exposure, exposure_fraction)
    IN  IF put_ok
        THEN Some([btc_exposure |-> round4(new_btc),
                   eth_exposure |-> round4(new_eth),
                   total_exposure |-> round4(RAdd(new_btc, new_eth))])
        ELSE None

xrp_get_hour_positions(stored, read_ok) ==
    IF ~read_ok \/ stored = None
    THEN [btc_exposure |-> RInt(0), eth_exposure |-> RInt(0), xrp_exposure |-> RInt(0),
          sol_exposure |-> RInt(0), total_exposure |-> RInt(0)]
    ELSE LET btc == item_get(stored[1], "btc_exposure")
             eth == item_get(stored[1], "eth_exposure")
             xrp == item_get(stored[1], "xrp_exposure")
             sol == item_get(stored[1], "sol_exposure")
         IN  [btc_exposure |-> btc, eth_exposure |-> eth, xrp_exposure |-> xrp,
              sol_exposure |-> sol,
              total_exposure |-> RAdd(RAdd(RAdd(btc, eth), xrp), sol)]

\* the item put by XRP's update_hour_position (None when the put fails)
xrp_update_hour_position(stored, asset, exposure_fraction, read_ok, put_ok) ==
    LET current == xrp_get_hour_positions(stored, read_ok)
        new_btc == IF asset \notin {"xrp", "sol", "eth"}
                   THEN RAdd(current.btc_exposure, exposure_fraction)
                   ELSE current.btc_exposure
        new_eth == IF asset = "eth" THEN RAdd(current.eth_exposure, exposure_fraction)
                   ELSE current.eth_exposure
        new_xrp == IF asset = "xrp" THEN RAdd(current.xrp_exposure, exposure_fraction)
                   ELSE current.xrp_exposure
        new_sol == IF asset = "sol" THEN RAdd(current.sol_exposure, exposure_fraction)
                   ELSE current.sol_exposure
        total == RAdd(RAdd(RAdd(new_btc, new_eth), new_xrp), new_sol)
    IN  IF put_ok
        THEN Some([btc_exposure |-> round4(new_btc),
                   eth_exposure |-> round4(new_eth),
                   xrp_exposure |-> round4(new_xrp),
                   sol_exposure |-> round4(new_sol),
                   total_exposure |-> round4(total)])
        ELSE None

(***************************************************************************)
(* ETH and XRP bots.  The two lambda_handlers differ in their constants,   *)
(* in the exposure functions above and in ETH's logging-only sizing call.  *)
(***************************************************************************)
eth_calculate_model_probability(eth_price, strike_price, vol_std_pct, minutes_to_settlement) ==
    IF vol_std_pct <= 0 \/ minutes_to_settlement <= 0 THEN None
    ELSE LET vol_with_floor == IMax(vol_std_pct, ETH_MIN_VOLATILITY_PCT)
         IN  Some(R(norm_cdf(std_devs(eth_price, strike_price, vol_with_floor,
                                      sqrt_minutes_over_15(minutes_to_settlement))), FP))

xrp_calculate_model_probability(xrp_price, strike_price, vol_std_pct, minutes_to_settlement) ==
    IF vol_std_pct <= 0 \/ minutes_to_settlement <= 0 THEN None
    ELSE LET vol_with_floor == IMax(vol_std_pct, XRP_MIN_VOLATILITY_PCT)
         IN  Some(R(norm_cdf(std_devs(xrp_price, strike_price, vol_with_floor,
                                      sqrt_minutes_over_15(minutes_to_settlement))), FP))

ETHConfig ==
    [bot |-> "eth", min_bps |-> ETH_MIN_BPS_ABOVE,
     min_edge_early |-> ETH_MIN_EDGE_PCT_EARLY, min_edge_late |-> ETH_MIN_EDGE_PCT_LATE,
     max_kelly |-> ETH_MAX_KELLY_FRACTION,
     min_no_price |-> ETH_MIN_NO_PRICE, max_no_price |-> ETH_MAX_NO_PRICE,
     min_profit |-> ETH_MIN_PROFIT_PCT, max_vol |-> ETH_MAX_VOLATILITY_PCT]

XRPConfig ==
    [bot |-> "xrp", min_bps |-> XRP_MIN_BPS_ABOVE,
     min_edge_early |-> XRP_MIN_EDGE_PCT_EARLY, min_edge_late |-> XRP_MIN_EDGE_PCT_LATE,
     max_kelly |-> XRP_MAX_KELLY_FRACTION,
     min_no_price |-> XRP_MIN_NO_PRICE, max_no_price |-> XRP_MAX_NO_PRICE,
     min_profit |-> XRP_MIN_PROFIT_PCT, max_vol |-> XRP_MAX_VOLATILITY_PCT]

\* the body shared by the two handlers; stored is the hour item found in the table
hourly_lambda_handler(cfg, e, stored) ==
    LET current_minute == e.minute
        minutes_to_hour == 60 - current_minute
        trading_window ==
            IF EARLY_WINDOW_START <= current_minute /\ current_minute < LATE_WINDOW_START
            THEN "early"
            ELSE IF current_minute >= LATE_WINDOW_START THEN "late"
            ELSE IF e.force THEN "force" ELSE "none"
        min_edge_pct == IF trading_window = "early" THEN cfg.min_edge_early
                        ELSE cfg.min_edge_late
    IN
    IF trading_window = "none" THEN Return(200, "outside_trading_window", <<>>)
    ELSE IF e.balance = None THEN Return(500, "balance_error", <<>>)
    ELSE IF RLt(e.balance[1], HOURLY_MIN_BALANCE) THEN Return(200, "insufficient_funds", <<>>)
    ELSE
    LET bankroll == e.balance[1]
        total_exposure ==
            IF cfg.bot = "eth" THEN eth_get_hour_positions(stored, e.pos_read_ok).total_exposure
            ELSE xrp_get_hour_positions(stored, e.pos_read_ok).total_exposure
        remaining_kelly == RSub(cfg.max_kelly, total_exposure)
    IN
    IF RLe(remaining_kelly, KELLY_EXHAUSTED_BELOW) THEN Return(200, "kelly_exhausted", <<>>)
    ELSE IF e.vol_data = None THEN Return(200, "insufficient_vol_data", <<>>)
    ELSE
    LET vol_std == e.vol_data[1][15].std
        vol_samples == e.vol_data[1][15].samples
        t1 == [vol_samples |-> Some(vol_samples)]
    IN
    IF vol_samples < MIN_VOL_SAMPLES THEN Return(200, "insufficient_vol_data", t1)
    ELSE IF vol_std >= cfg.max_vol THEN Return(200, "volatility_stop", t1)
    ELSE IF e.price = None THEN ReturnError(t1)
    ELSE IF e.markets = <<>> THEN Return(200, "no_markets", t1)
    ELSE
    Bind(find_target_strike(sort_by_strike(e.markets), e.price[1], cfg.min_bps),
         LAMBDA target :
    IF target = None THEN Return(200, "no_target", t1)
    ELSE
    LET target_market == target[1]
        strike_price == target_market.floor_strike
        t2 == [ticker |-> Some(target_market.ticker), no_ask |-> target_market.no_ask] @@ t1
    IN
    \* a null no_ask makes the bounds comparison raise TypeError
    IF target_market.no_ask = None THEN handler_except(t2)
    ELSE
    LET market_no_price == target_market.no_ask[1]
    IN
    IF market_no_price < cfg.min_no_price \/ market_no_price > cfg.max_no_price
    THEN Return(200, "price_out_of_bounds", t2)
    ELSE
    Bind(IF cfg.bot = "eth"
         THEN eth_calculate_model_probability(e.price[1], strike_price, vol_std,
                                              minutes_to_hour)
         ELSE xrp_calculate_model_probability(e.price[1], strike_price, vol_std,
                                              minutes_to_hour),
         LAMBDA model :
    IF model = None THEN Return(200, "model_error", t2)
    ELSE
    LET model_prob == model[1]
        t3 == [model_prob |-> model, min_edge |-> Some(min_edge_pct)] @@ t2
    IN
    IF RLt(edge_pct(model_prob, market_no_price), RInt(min_edge_pct))
    THEN \* ETH sizes the missed trade for its log; XRP does not
         IF cfg.bot = "eth"
         THEN Bind(eth_calculate_kelly_bet(model_prob, market_no_price, bankroll,
                                           remaining_kelly),
                   LAMBDA hypothetical_kelly :
                       Return(200, "insufficient_edge",
                              [hypothetical_kelly |-> Some(hypothetical_kelly)] @@ t3))
         ELSE Return(200, "insufficient_edge", t3)
    ELSE
    Bind(IF cfg.bot = "eth"
         THEN eth_calculate_kelly_bet(model_prob, market_no_price, bankroll,
                                      remaining_kelly)
         ELSE xrp_calculate_kelly_bet(model_prob, market_no_price, bankroll,
                                      remaining_kelly),
         LAMBDA kelly :
    LET t4 == [kelly_called |-> TRUE, kelly |-> kelly] @@ t3
    IN
    IF kelly = None \/ kelly[1].num_contracts < 1 THEN Return(200, "bet_too_small", t4)
    ELSE IF RLt(profit_pct(market_no_price), RInt(cfg.min_profit))
    THEN Return(200, "insufficient_profit", t4)
    ELSE
    Bind(execute_no_trade(cfg.bot, target_market.ticker, kelly[1].num_contracts,
                          market_no_price, kelly[1].kelly_fraction, e.order_ok, e.log_ok),
         LAMBDA x :
    LET t5 == [create_order_calls |-> x.create_order_calls,
               submitted |-> x.submitted, logged |-> x.logged] @@ t4
    IN
    IF x.result # None
    THEN Return(200, "success",
                [item |-> IF cfg.bot = "eth"
                          THEN eth_update_hour_position(stored, "eth",
                                   kelly[1].kelly_fraction, e.pos_reread_ok, e.pos_put_ok)
                          ELSE xrp_update_hour_position(stored, "xrp",
                                   kelly[1].kelly_fraction, e.pos_reread_ok, e.pos_put_ok)]
                @@ t5)
    ELSE ReturnError(t5)))))

eth_lambda_handler(e, stored) == hourly_lambda_handler(ETHConfig, e, stored)

xrp_lambda_handler(e, stored) == hourly_lambda_handler(XRPConfig, e, stored)

(***************************************************************************)
(* BTC range bot (btc_range_bot.py).                                       *)
(***************************************************************************)
RANGE_MIN_EDGE_PCT == 4

RANGE_MIN_NO_PRICE == 50

RANGE_MAX_NO_PRICE == 98

RANGE_MIN_PROFIT_PCT == 3

RANGE_MAX_VOLATILITY_PCT == 1000

RANGE_MIN_VOLATILITY_PCT == 15

MAX_MODEL_PROB == R(99, 100)

RANGE_MIN_BALANCE == RInt(5)

MIN_MINUTES == 15

RECURSIVE insert_by_midpoint(_, _)
insert_by_midpoint(sorted, m) ==
    IF sorted = <<>> THEN <<m>>
    ELSE IF m.floor_strike + m.cap_strike < Head(sorted).floor_strike + Head(sorted).cap_strike
         THEN <<m>> \o sorted
         ELSE <<Head(sorted)>> \o insert_by_midpoint(Tail(sorted), m)

RECURSIVE get_range_markets(_)
\* the markets having both a floor and a cap, sorted by range midpoint
get_range_markets(raw) ==
    IF raw = <<>> THEN <<>>
    ELSE LET m == raw[Len(raw)]
             before == get_range_markets(SubSeq(raw, 1, Len(raw) - 1))
         IN  IF m.floor_strike = None \/ m.cap_strike = None THEN before
             ELSE insert_by_midpoint(before,
                      [ticker |-> m.ticker, floor_strike |-> m.floor_strike[1],
                       cap_strike |-> m.cap_strike[1], no_ask |-> m.no_ask])

\* calculate_range_probability returning prob_no_wins without the cap
range_probability_uncapped(btc_price, floor_strike, cap_strike, vol_std_pct, minutes) ==
    IF vol_std_pct <= 0 \/ minutes <= 0 THEN None
    ELSE LET vol_with_floor == IMax(vol_std_pct, RANGE_MIN_VOLATILITY_PCT)
             scale == sqrt_minutes_over_15(minutes)
             z_floor == std_devs(btc_price, floor_strike, vol_with_floor, scale)
             z_cap == std_devs(btc_price, cap_strike, vol_with_floor, scale)
             prob_in_range == R(norm_cdf(z_cap) - norm_cdf(z_floor), FP)
         IN  Some([prob_in_range |-> prob_in_range,
                   prob_no_wins |-> RSub(RInt(1), prob_in_range)])

\* (prob_in_range, prob_no_capped), or None
calculate_range_probability(btc_price, floor_strike, cap_strike, vol_std_pct, minutes) ==
    IF vol_std_pct <= 0 \/ minutes <= 0 THEN None
    ELSE LET vol_with_floor == IMax(vol_std_pct, RANGE_MIN_VOLATILITY_PCT)
             scale == sqrt_minutes_over_15(minutes)
             z_floor == std_devs(btc_price, floor_strike, vol_with_floor, scale)
             z_cap == std_devs(btc_price, cap_strike, vol_with_floor, scale)
             prob_in_range == R(norm_cdf(z_cap) - norm_cdf(z_floor), FP)
             prob_no_wins == RSub(RInt(1), prob_in_range)
         IN  Some([prob_in_range |-> prob_in_range,
                   prob_no_wins |-> RMin(prob_no_wins, MAX_MODEL_PROB)])

RECURSIVE range_opportunities(_, _, _, _)
\* the opportunities list of find_best_range_opportunity, in market order
range_opportunities(markets, btc_price, vol_std, mins_to_settle) ==
    IF markets = <<>> THEN <<>>
    ELSE
    LET market == Head(markets)
        rest == range_opportunities(Tail(markets), btc_price, vol_std, mins_to_settle)
        no_ask == IF market.no_ask = None THEN 0 ELSE market.no_ask[1]
    IN
    IF no_ask = 0 \/ no_ask < RANGE_MIN_NO_PRICE \/ no_ask > RANGE_MAX_NO_PRICE THEN rest
    ELSE
    Bind(calculate_range_probability(btc_price, market.floor_strike, market.cap_strike,
                                     vol_std, mins_to_settle),
         LAMBDA result :
    IF result = None THEN rest
    ELSE
    Bind(edge_pct(result[1].prob_no_wins, no_ask), LAMBDA edge :
    IF RLe(RInt(RANGE_MIN_EDGE_PCT), edge)
    THEN <<[market |-> market, no_ask |-> no_ask,
            prob_no_wins |-> result[1].prob_no_wins, edge |-> edge]>> \o rest
    ELSE rest))

RECURSIVE highest_edge(_)
\* opportunities.sort(key = edge, reverse = True)[0]: the first of highest edge
highest_edge(opportunities) ==
    IF Len(opportunities) = 1 THEN Head(opportunities)
    ELSE LET later == highest_edge(Tail(opportunities))
         IN  IF RLt(Head(opportunities).edge, later.edge) THEN later
             ELSE Head(opportunities)

find_best_range_opportunity(markets, btc_price, vol_std, mins_to_settle) ==
    Bind(range_opportunities(markets, btc_price, vol_std, mins_to_settle),
         LAMBDA opportunities :
             IF opportunities = <<>> THEN None ELSE Some(highest_edge(opportunities)))

\* e.dry_run is the module's DRY_RUN setting (True as shipped, False for live
\* trading)
range_lambda_handler(e) ==
    IF e.balance = None THEN Return(500, "balance_error", <<>>)
    ELSE IF RLt(e.balance[1], RANGE_MIN_BALANCE) THEN Return(200, "insufficient_funds", <<>>)
    ELSE IF e.vol_data = None THEN Return(200, "no_volatility_data", <<>>)
    ELSE
    LET bankroll == e.balance[1]
        vol_15m == e.vol_data[1][15].std
        \* read "for display" only
        t1 == [vol_samples |-> Some(e.vol_data[1][15].samples)]
    IN
    IF vol_15m >= RANGE_MAX_VOLATILITY_PCT THEN Return(200, "volatility_stop", t1)
    ELSE IF e.price = None THEN ReturnError(t1)
    ELSE IF e.mins_to_settle = None THEN Return(200, "no_contracts_available", t1)
    ELSE IF e.mins_to_settle[1] < MIN_MINUTES THEN Return(200, "too_close_to_settlement", t1)
    ELSE
    Bind(get_range_markets(e.markets), LAMBDA markets :
    IF markets = <<>> THEN Return(200, "no_markets", t1)
    ELSE
    Bind(find_best_range_opportunity(markets, e.price[1], vol_15m, e.mins_to_settle[1]),
         LAMBDA found :
    IF found = None THEN Return(200, "no_opportunity", t1)
    ELSE
    LET opportunity == found[1]
        market == opportunity.market
        no_ask == opportunity.no_ask
    IN
    Bind(range_calculate_kelly_bet(opportunity.prob_no_wins, no_ask, bankroll),
         LAMBDA kelly :
    LET t2 == [ticker |-> Some(market.ticker), no_ask |-> Some(no_ask),
               model_prob |-> Some(opportunity.prob_no_wins),
               min_edge |-> Some(RANGE_MIN_EDGE_PCT),
               kelly_called |-> TRUE, kelly |-> kelly] @@ t1
    IN
    IF kelly = None \/ kelly[1].num_contracts < 1 THEN Return(200, "bet_too_small", t2)
    ELSE IF RLt(profit_pct(no_ask), RInt(RANGE_MIN_PROFIT_PCT))
    THEN Return(200, "insufficient_profit", t2)
    ELSE IF e.dry_run
    THEN Return(200, "dry_run_alert",
                [logged |-> log_trade(LogRecord("range", market.ticker,
                                                kelly[1].num_contracts, no_ask, "dry_run"),
                                      e.log_ok)] @@ t2)
    ELSE
    Bind(execute_no_trade("range", market.ticker, kelly[1].num_contracts, no_ask,
                          kelly[1].kelly_fraction, e.order_ok, e.log_ok),
         LAMBDA x :
    LET t3 == [create_order_calls |-> x.create_order_calls,
               submitted |-> x.submitted, logged |-> x.logged] @@ t2
    IN
    IF x.result # None THEN Return(200, "success", t3) ELSE ReturnError(t3)))))

(***************************************************************************)
(* Bounds and input sets of the sizer specification.                       *)
(***************************************************************************)
ProbDen == 10

PriceMargin == 1

WinProbInputs == {R(n, ProbDen) : n \in 0..ProbDen}

NoPriceInputs == (0 - PriceMargin)..(100 + PriceMargin)

\* bankrolls in cents, as get_balance reports them
BankrollCentsInputs == {0, 59, 100, 100000, 500000}

RemainingKellyInputs == {R(n, 100) : n \in {0, 1, 2, 5, 10, 15}}

(***************************************************************************)
(* Sizer specification: the arguments of one call are drawn in the initial *)
(* state and the call of the chosen bot's calculate_kelly_bet returns.     *)
(***************************************************************************)
KellyArgs(bot, win_prob, market_no_price, bankroll, cap) ==
    [bot |-> bot, win_prob |-> win_prob, market_no_price |-> market_no_price,
     bankroll |-> bankroll, cap |-> cap, pc |-> "call", result |-> None]

\* the variables of the other specifications, which this one leaves alone
others == <<call, bt, store, weather, procs, dash>>

NotRunning == [pc |-> "idle"]

OthersIdle ==
    /\ call = NotRunning
    /\ bt = NotRunning
    /\ store = NotRunning
    /\ weather = NotRunning
    /\ procs = NotRunning /\ dash = NotRunning

\* no handler is running
NoInvocation ==
    /\ env = [bot |-> "none"]
    /\ pc = "idle"
    /\ positions = None
    /\ orders = <<>>
    /\ trade_log = <<>>
    /\ outcome = Quiet
    /\ invocations = 0

KellyInit ==
    /\ NoInvocation
    /\ OthersIdle
    /\ \E p \in WinProbInputs, c \in NoPriceInputs, cents \in BankrollCentsInputs :
           \/ kelly_call = KellyArgs("btc", p, c, R(cents, 100), BTC_MAX_KELLY_FRACTION)
           \/ kelly_call = KellyArgs("range", p, c, R(cents, 100), RANGE_MAX_KELLY_FRACTION)
           \/ \E rem \in RemainingKellyInputs, bot \in {"eth", "xrp"} :
                  kelly_call = KellyArgs(bot, p, c, R(cents, 100), rem)

KellyReturn(result) ==
    /\ kelly_call' = [kelly_call EXCEPT !.pc = "done", !.result = result]
    /\ UNCHANGED <<env, pc, positions, orders, trade_log, outcome, invocations>>
    /\ UNCHANGED others

CallBTCKelly ==
    /\ kelly_call.pc = "call" /\ kelly_call.bot = "btc"
    /\ KellyReturn(btc_calculate_kelly_bet(kelly_call.win_prob,
                       kelly_call.market_no_price, kelly_call.bankroll))

CallRangeKelly ==
    /\ kelly_call.pc = "call" /\ kelly_call.bot = "range"
    /\ KellyReturn(range_calculate_kelly_bet(kelly_call.win_prob,
                       kelly_call.market_no_price, kelly_call.bankroll))

CallETHKelly ==
    /\ kelly_call.pc = "call" /\ kelly_call.bot = "eth"
    /\ KellyReturn(eth_calculate_kelly_bet(kelly_call.win_prob,
                       kelly_call.market_no_price, kelly_call.bankroll, kelly_call.cap))

CallXRPKelly ==
    /\ kelly_call.pc = "call" /\ kelly_call.bot = "xrp"
    /\ KellyReturn(xrp_calculate_kelly_bet(kelly_call.win_prob,
                       kelly_call.market_no_price, kelly_call.bankroll, kelly_call.cap))

KellyNext == CallBTCKelly \/ CallRangeKelly \/ CallETHKelly \/ CallXRPKelly

SpecKelly == KellyInit /\ [][KellyNext]_vars

(***************************************************************************)
(* Properties of the sizer.                                                *)
(***************************************************************************)
KellyReturned == kelly_call.pc = "done" /\ kelly_call.result # None

\* C1: for every win probability in [0,1], every NO price with 0 < c < 100,
\* every bankroll >= 0 and every cap >= 0, the kelly_fraction returned by
\* calculate_kelly_bet lies in [0, cap], the cap being MAX_KELLY_FRACTION (BTC
\* hourly), max_kelly (BTC range) or remaining_kelly_fraction (ETH, XRP).
KellyFractionWithinCap ==
    (/\ KellyReturned
     /\ RLe(RInt(0), kelly_call.win_prob) /\ RLe(kelly_call.win_prob, RInt(1))
     /\ 0 < kelly_call.market_no_price /\ kelly_call.market_no_price < 100
     /\ RLe(RInt(0), kelly_call.bankroll)
     /\ RLe(RInt(0), kelly_call.cap))
    => /\ RLe(RInt(0), kelly_call.result[1].kelly_fraction)
       /\ RLe(kelly_call.result[1].kelly_fraction, kelly_call.cap)

\* C1 witness: p = 0.9 at 60c has raw Kelly 0.75 and the BTC hourly sizer
\* returns the cap 0.25 (416 contracts on a bankroll of 1000 dollars).
KellyClampedAtCap ==
    /\ KellyReturned
    /\ kelly_call.bot = "btc"
    /\ kelly_call.win_prob = R(9, 10)
    /\ kelly_call.market_no_price = 60
    /\ kelly_call.bankroll = RInt(1000)
    /\ kelly_call.result[1].kelly_fraction = R(1, 4)
    /\ kelly_call.result[1].num_contracts = 416

BalanceInputs == {None, Some(R(59, 100)), Some(RInt(1)), Some(RInt(5)), Some(RInt(1000))}

\* the same reading for every volatility window
VolProfile(std, samples) == [w \in {5, 7, 10, 12, 15} |-> [std |-> std, samples |-> samples]]

\* get_volatility_from_dynamo: None on failure or a missing item
\* a 15-minute reading that differs from the readings of the shorter windows
MixedVolProfile(std_15m, std, samples) ==
    [w \in {5, 7, 10, 12, 15} |-> [std |-> IF w = 15 THEN std_15m ELSE std,
                                   samples |-> samples]]

VolInputs ==
    {None, Some(VolProfile(30, 2)), Some(VolProfile(30, 30)), Some(VolProfile(1500, 30)),
     Some(MixedVolProfile(1500, 30, 30))}

\* get_coinbase_*_price: None on failure
PriceInputs == {None, Some(100000)}

LowStrike == [ticker |-> "T-LOW", floor_strike |-> 100100, no_ask |-> Some(50)]

FarStrike == [ticker |-> "T-FAR", floor_strike |-> 102000, no_ask |-> Some(99)]

NearStrike(strike, no_ask) == [ticker |-> "T-NEAR", floor_strike |-> strike, no_ask |-> no_ask]

\* a null ask, asks outside the configured bounds and asks inside them
AskInputs == {None, Some(0), Some(49), Some(85), Some(95), Some(100)}

\* get_*_markets, as the API lists them (unsorted); <<>> on failure
MarketInputs ==
    {<<>>, <<LowStrike>>}
    \cup {<<FarStrike, NearStrike(100600, a), LowStrike>> : a \in AskInputs}
    \cup {<<FarStrike, NearStrike(101000, a), LowStrike>> : a \in {Some(85), Some(95)}}

\* the hour item found in CryptoPositions, whether get_hour_positions can read
\* it, and whether update_hour_position can re-read and put it
StoreInputs ==
    {[stored |-> None, pos_read_ok |-> TRUE, pos_reread_ok |-> TRUE, pos_put_ok |-> TRUE],
     [stored |-> Some([btc_exposure |-> 0, eth_exposure |-> 500, total_exposure |-> 500]),
      pos_read_ok |-> TRUE, pos_reread_ok |-> TRUE, pos_put_ok |-> TRUE],
     [stored |-> Some([btc_exposure |-> 0, eth_exposure |-> 1500, total_exposure |-> 1500]),
      pos_read_ok |-> TRUE, pos_reread_ok |-> TRUE, pos_put_ok |-> TRUE],
     [stored |-> Some([btc_exposure |-> 0, eth_exposure |-> 0, xrp_exposure |-> 500,
                       sol_exposure |-> 0, total_exposure |-> 500]),
      pos_read_ok |-> TRUE, pos_reread_ok |-> TRUE, pos_put_ok |-> TRUE],
     [stored |-> Some([btc_exposure |-> 0, eth_exposure |-> 500, total_exposure |-> 500]),
      pos_read_ok |-> FALSE, pos_reread_ok |-> TRUE, pos_put_ok |-> TRUE],
     [stored |-> Some([btc_exposure |-> 0, eth_exposure |-> 500, total_exposure |-> 500]),
      pos_read_ok |-> TRUE, pos_reread_ok |-> FALSE, pos_put_ok |-> TRUE],
     [stored |-> Some([btc_exposure |-> 0, eth_exposure |-> 500, total_exposure |-> 500]),
      pos_read_ok |-> TRUE, pos_reread_ok |-> TRUE, pos_put_ok |-> FALSE]}

BTCEnvs ==
    {[bot |-> "btc", minute |-> m, force |-> f, balance |-> b, vol_data |-> v,
      price |-> p, markets |-> ms, order_ok |-> o, log_ok |-> l] :
        m \in {44, 45, 55}, f \in BOOLEAN, b \in BalanceInputs, v \in VolInputs,
        p \in PriceInputs, ms \in MarketInputs, o \in BOOLEAN, l \in BOOLEAN}

\* the inputs of an ETH or XRP invocation that meets the store in state st
HourlyEnvs(bot, st) ==
    {[bot |-> bot, minute |-> m, force |-> f, balance |-> b, vol_data |-> v,
      price |-> p, markets |-> ms, order_ok |-> o, log_ok |-> l,
      pos_read_ok |-> st.pos_read_ok, pos_reread_ok |-> st.pos_reread_ok,
      pos_put_ok |-> st.pos_put_ok] :
        m \in {29, 30, 44, 45}, f \in BOOLEAN, b \in BalanceInputs, v \in VolInputs,
        p \in PriceInputs, ms \in MarketInputs, o \in BOOLEAN, l \in BOOLEAN}

RangeMarket(ticker, floor_strike, cap_strike, no_ask) ==
    [ticker |-> ticker, floor_strike |-> floor_strike, cap_strike |-> cap_strike,
     no_ask |-> no_ask]

\* the open-ended market below every range: it has no floor
BoundaryMarket == RangeMarket("R-BELOW", None, Some(99000), Some(60))

\* the range around the spot price
SpotRange == RangeMarket("R-SPOT", Some(99900), Some(100150), Some(85))

FarRange(no_ask) == RangeMarket("R-FAR", Some(101000), Some(101250), no_ask)

RangeMarketInputs ==
    {<<>>, <<BoundaryMarket>>,
     <<RangeMarket("R-FAR2", Some(101250), Some(101500), Some(90)), FarRange(Some(85)),
       SpotRange>>}
    \cup {<<FarRange(a), SpotRange, BoundaryMarket>> : a \in AskInputs}

\* get_next_range_contract: minutes to settlement of the soonest event, None
\* when there is none or the fetch fails
MinsToSettleInputs == {None, Some(10), Some(15), Some(45)}

RangeEnvs ==
    {[bot |-> "range", dry_run |-> d, balance |-> b, vol_data |-> v, price |-> p,
      mins_to_settle |-> mt, markets |-> ms, order_ok |-> o, log_ok |-> l] :
        d \in BOOLEAN, b \in BalanceInputs, v \in VolInputs, p \in PriceInputs,
        mt \in MinsToSettleInputs, ms \in RangeMarketInputs,
        o \in BOOLEAN, l \in BOOLEAN}

(***************************************************************************)
(* Handler specification: one invocation of one bot's lambda_handler.  The *)
(* collaborators' answers and the stored hour item are drawn in the        *)
(* initial state; the invocation runs the handler to its return.           *)
(***************************************************************************)
NoKellyCall == [KellyArgs("none", RInt(0), 0, RInt(0), RInt(0)) EXCEPT !.pc = "idle"]

HandlerInit ==
    /\ kelly_call = NoKellyCall
    /\ OthersIdle
    /\ pc = "start"
    /\ orders = <<>>
    /\ trade_log = <<>>
    /\ outcome = Quiet
    /\ invocations = 0
    /\ \/ env \in BTCEnvs /\ positions = None
       \/ env \in RangeEnvs /\ positions = None
       \/ \E st \in StoreInputs, bot \in {"eth", "xrp"} :
              env \in HourlyEnvs(bot, st) /\ positions = st.stored

\* the effects of an invocation on the stores, and its response
Effects(result) ==
    /\ outcome' = result
    /\ positions' = IF result.item # None THEN result.item ELSE positions
    /\ orders' = orders \o result.submitted
    /\ trade_log' = trade_log \o result.logged
    /\ invocations' = invocations + 1
    /\ UNCHANGED kelly_call
    /\ UNCHANGED others

Finish(result) == Effects(result) /\ pc' = "done" /\ UNCHANGED env

InvokeBTC ==
    /\ pc = "start" /\ env.bot = "btc"
    /\ \E result \in {btc_lambda_handler(env)} : Finish(result)

InvokeETH ==
    /\ pc = "start" /\ env.bot = "eth"
    /\ \E result \in {eth_lambda_handler(env, positions)} : Finish(result)

InvokeXRP ==
    /\ pc = "start" /\ env.bot = "xrp"
    /\ \E result \in {xrp_lambda_handler(env, positions)} : Finish(result)

InvokeRange ==
    /\ pc = "start" /\ env.bot = "range"
    /\ \E result \in {range_lambda_handler(env)} : Finish(result)

HandlerNext == InvokeBTC \/ InvokeETH \/ InvokeXRP \/ InvokeRange

SpecHandler == HandlerInit /\ [][HandlerNext]_vars

(***************************************************************************)
(* Hour specification: successive, non-overlapping invocations of the BTC  *)
(* hourly, ETH and XRP bots under one hour key.  The stores answer every   *)
(* call, the market offers a trade each time, and only the outcome of the  *)
(* order submission and the minute vary.                                   *)
(***************************************************************************)
MaxInvocations == 3

HourMarkets == <<FarStrike, NearStrike(101000, Some(85)), LowStrike>>

HourEnvs(bot) ==
    {[bot |-> bot, minute |-> m, force |-> FALSE, balance |-> Some(RInt(1000)),
      vol_data |-> Some(VolProfile(30, 30)), price |-> Some(100000),
      markets |-> HourMarkets, order_ok |-> o, log_ok |-> TRUE,
      pos_read_ok |-> TRUE, pos_reread_ok |-> TRUE, pos_put_ok |-> TRUE] :
        m \in {30, 45}, o \in BOOLEAN}

HourInit ==
    /\ kelly_call = NoKellyCall
    /\ OthersIdle
    /\ env = [bot |-> "none"]
    /\ pc = "hour"
    /\ positions = None
    /\ orders = <<>>
    /\ trade_log = <<>>
    /\ outcome = Quiet
    /\ invocations = 0

HourInvokeBTC ==
    /\ pc = "hour" /\ invocations < MaxInvocations
    /\ \E e \in HourEnvs("btc") :
           \E result \in {btc_lambda_handler(e)} :
               env' = e /\ Effects(result) /\ UNCHANGED pc

HourInvokeETH ==
    /\ pc = "hour" /\ invocations < MaxInvocations
    /\ \E e \in HourEnvs("eth") :
           \E result \in {eth_lambda_handler(e, positions)} :
               env' = e /\ Effects(result) /\ UNCHANGED pc

HourInvokeXRP ==
    /\ pc = "hour" /\ invocations < MaxInvocations
    /\ \E e \in HourEnvs("xrp") :
           \E result \in {xrp_lambda_handler(e, positions)} :
               env' = e /\ Effects(result) /\ UNCHANGED pc

HourNext == HourInvokeBTC \/ HourInvokeETH \/ HourInvokeXRP

SpecHour == HourInit /\ [][HourNext]_vars

(***************************************************************************)
(* Sizing specification: the sizer's calls and the handlers' invocations   *)
(* side by side, for the properties that relate the two.                   *)
(***************************************************************************)
SpecSizing == (KellyInit \/ HandlerInit) /\ [][KellyNext \/ HandlerNext]_vars

(***************************************************************************)
(* Properties of one handler invocation.                                   *)
(***************************************************************************)
\* the invocation has returned
Returned == pc = "done"

OutOfRangePrice(c) == c <= 0 \/ c >= 100

\* the sizer returns None exactly for the prices outside 1..99
KellyNoneIffOutOfRange ==
    kelly_call.pc = "done"
    => ((kelly_call.result = None) <=> OutOfRangePrice(kelly_call.market_no_price))

HandlerAlwaysReturnsResponse ==
    Returned
    => /\ ~outcome.raised
       /\ outcome.status_code \in {200, 500}
       /\ outcome.status # "" \/ outcome.error

\* C6 witness: the chosen market's no_ask is null, the bounds comparison
\* raises, and the ETH handler's except clause answers 500 with an error while
\* the order and trade-log collaborators are down.
NullAskAnsweredWithError ==
    /\ Returned
    /\ env.bot = "eth"
    /\ ~env.order_ok /\ ~env.log_ok
    /\ outcome.ticker = Some("T-NEAR")
    /\ outcome.no_ask = None
    /\ outcome.status_code = 500
    /\ outcome.error

\* no listed strike is min_bps basis points above the spot price
NoTargetStrike(min_bps) ==
    \A i \in DOMAIN env.markets :
        ~(/\ env.markets[i].floor_strike # 0
          /\ env.markets[i].floor_strike * 10000 >= env.price[1] * (10000 + min_bps))

\* the balance, the volatility, the spot price or the market list is missing,
\* or the list holds no instrument the bot can trade
DataUnavailable ==
    \/ env.balance = None
    \/ env.vol_data = None
    \/ env.price = None
    \/ env.markets = <<>>
    \/ env.bot = "btc" /\ NoTargetStrike(BTC_MIN_BPS_ABOVE)
    \/ env.bot = "eth" /\ NoTargetStrike(ETH_MIN_BPS_ABOVE)
    \/ env.bot = "xrp" /\ NoTargetStrike(XRP_MIN_BPS_ABOVE)
    \/ env.bot = "range"
       /\ \/ env.mins_to_settle = None
          \/ \A i \in DOMAIN env.markets :
                 env.markets[i].floor_strike = None \/ env.markets[i].cap_strike = None

\* C7: in the four bots, when the balance fetch, the volatility read, the spot
\* price fetch or the market list fetch fails or yields no usable instrument,
\* the invocation returns a response carrying a status or an error and
\* create_order is not called in it.
DataUnavailableNoOrder ==
    (Returned /\ DataUnavailable)
    => /\ outcome.create_order_calls = 0
       /\ outcome.submitted = <<>>
       /\ outcome.status_code \in {200, 500}
       /\ outcome.status # "" \/ outcome.error

\* C7 witness: the XRP bot has funds, budget and volatility, the spot price
\* fetch fails, and the invocation answers 500 with an error and no order.
PriceFetchFailureAnswered ==
    /\ Returned
    /\ env.bot = "xrp"
    /\ env.minute = 45
    /\ env.balance = Some(RInt(1000))
    /\ env.vol_data = Some(VolProfile(30, 30))
    /\ env.price = None
    /\ env.markets # <<>>
    /\ outcome.vol_samples = Some(30)
    /\ outcome.error
    /\ outcome.status_code = 500
    /\ outcome.create_order_calls = 0

WindowOrForce ==
    \/ env.force
    \/ env.bot = "btc" /\ BTC_WINDOW_START <= env.minute /\ env.minute <= 59
    \/ env.bot \in {"eth", "xrp"} /\ EARLY_WINDOW_START <= env.minute /\ env.minute <= 59

\* the edge the bot must see at this minute
RequiredEdge ==
    IF env.bot = "btc" THEN BTC_MIN_EDGE_PCT
    ELSE IF EARLY_WINDOW_START <= env.minute /\ env.minute < LATE_WINDOW_START
         THEN IF env.bot = "eth" THEN ETH_MIN_EDGE_PCT_EARLY ELSE XRP_MIN_EDGE_PCT_EARLY
         ELSE IF env.bot = "eth" THEN ETH_MIN_EDGE_PCT_LATE ELSE XRP_MIN_EDGE_PCT_LATE

MinNoPrice ==
    IF env.bot = "btc" THEN BTC_MIN_NO_PRICE
    ELSE IF env.bot = "eth" THEN ETH_MIN_NO_PRICE ELSE XRP_MIN_NO_PRICE

MaxNoPrice ==
    IF env.bot = "btc" THEN BTC_MAX_NO_PRICE
    ELSE IF env.bot = "eth" THEN ETH_MAX_NO_PRICE ELSE XRP_MAX_NO_PRICE

MinProfitPct ==
    IF env.bot = "btc" THEN BTC_MIN_PROFIT_PCT
    ELSE IF env.bot = "eth" THEN ETH_MIN_PROFIT_PCT ELSE XRP_MIN_PROFIT_PCT

PriceInBounds == MinNoPrice <= outcome.no_ask[1] /\ outcome.no_ask[1] <= MaxNoPrice

\* (model_prob - c/100) * 100 >= the required edge
EdgeSufficient ==
    RLe(RInt(RequiredEdge),
        RMul(RSub(outcome.model_prob[1], R(outcome.no_ask[1], 100)), RInt(100)))

\* (100 - c) / c * 100 >= MIN_PROFIT_PCT
ProfitSufficient == (100 - outcome.no_ask[1]) * 100 >= MinProfitPct * outcome.no_ask[1]

\* C9: in the BTC hourly, ETH and XRP bots create_order is called only if the
\* minute is in the trading window (45-59 BTC, 30-59 ETH/XRP) or force is set,
\* MIN_NO_PRICE <= NO ask <= MAX_NO_PRICE, the edge is at least the minimum
\* (3 BTC; 12 in the ETH/XRP early window, 4 late and when forced), the sizer
\* gave at least 1 contract and the profit percentage is at least
\* MIN_PROFIT_PCT; each of the five rejections returns statusCode 200 with its
\* own status and no order.
OrderOnlyWhenPolicyHolds ==
    (Returned /\ env.bot \in {"btc", "eth", "xrp"})
    => /\ outcome.create_order_calls > 0
          => /\ WindowOrForce
             /\ outcome.no_ask # None /\ PriceInBounds
             /\ outcome.model_prob # None /\ EdgeSufficient
             /\ outcome.kelly # None /\ outcome.kelly[1].num_contracts >= 1
             /\ ProfitSufficient
       /\ ~WindowOrForce <=> outcome.status = "outside_trading_window"
       /\ (outcome.no_ask # None /\ ~PriceInBounds)
          <=> outcome.status = "price_out_of_bounds"
       /\ (outcome.model_prob # None /\ ~EdgeSufficient)
          <=> outcome.status = "insufficient_edge"
       /\ (outcome.kelly_called /\ (outcome.kelly = None \/ outcome.kelly[1].num_contracts < 1))
          <=> outcome.status = "bet_too_small"
       /\ (/\ outcome.kelly_called /\ outcome.kelly # None
           /\ outcome.kelly[1].num_contracts >= 1 /\ ~ProfitSufficient)
          <=> outcome.status = "insufficient_profit"
       /\ outcome.status \in {"outside_trading_window", "price_out_of_bounds",
                              "insufficient_edge", "bet_too_small", "insufficient_profit"}
          => outcome.status_code = 200 /\ outcome.create_order_calls = 0

\* C9 witness: at minute :30 the ETH bot sees more than 12 points of edge at
\* 85 cents and submits its order.
EarlyWindowOrderPlaced ==
    /\ Returned
    /\ env.bot = "eth"
    /\ env.minute = 30 /\ ~env.force
    /\ outcome.no_ask = Some(85)
    /\ outcome.min_edge = Some(ETH_MIN_EDGE_PCT_EARLY)
    /\ outcome.create_order_calls = 1
    /\ outcome.status = "success"

\* the trade-log record of the submission that failed
FailedRecord ==
    LogRecord(env.bot, outcome.ticker[1], outcome.kelly[1].num_contracts,
              outcome.no_ask[1], "failed")

\* C10 (as amended): in one invocation create_order is called at most once;
\* if it raises, the handler returns statusCode 500, nothing is submitted a
\* second time, the hour exposure record is not written, and the trade log
\* receives the one 'failed' record with the attempted ticker, count and
\* price when its store accepts the write and no record when it does not.
FailedOrderLoggedWhenStoreAccepts ==
    Returned
    => /\ outcome.create_order_calls <= 1
       /\ (outcome.create_order_calls = 1 /\ ~env.order_ok)
          => /\ outcome.status_code = 500
             /\ outcome.submitted = <<>>
             /\ orders = <<>>
             /\ outcome.item = None
             /\ outcome.logged = IF env.log_ok THEN <<FailedRecord>> ELSE <<>>
             /\ trade_log = outcome.logged

\* C10 witness: the ETH bot's order is refused while the hour item holds 5%
\* of exposure; one 'failed' record is logged and the item is as it was.
FailedOrderLoggedOnce ==
    /\ Returned
    /\ env.bot = "eth"
    /\ ~env.order_ok /\ env.log_ok
    /\ outcome.create_order_calls = 1
    /\ outcome.status_code = 500
    /\ Len(trade_log) = 1 /\ trade_log[1].status = "failed"
    /\ positions = Some([btc_exposure |-> 0, eth_exposure |-> 500, total_exposure |-> 500])

\* C10 as stated: create_order is called at most once, and if it raises
\* exactly one 'failed' trade-log record with the attempted ticker, count and
\* price is written, the handler returns 500, nothing is submitted again and
\* the hour exposure record is left unchanged.
FailedOrderLoggedExactlyOnce ==
    Returned
    => /\ outcome.create_order_calls <= 1
       /\ (outcome.create_order_calls = 1 /\ ~env.order_ok)
          => /\ outcome.status_code = 500
             /\ outcome.submitted = <<>>
             /\ outcome.item = None
             /\ trade_log = <<FailedRecord>>

(***************************************************************************)
(* Properties of the invocations of one hour.                              *)
(***************************************************************************)
RECURSIVE SumKelly(_, _)
\* the sum of the Kelly fractions of the orders placed by the given bots
SumKelly(placed, bots) ==
    IF placed = <<>> THEN RInt(0)
    ELSE IF Head(placed).bot \in bots
         THEN RAdd(Head(placed).kelly_fraction, SumKelly(Tail(placed), bots))
         ELSE SumKelly(Tail(placed), bots)

\* C4 as stated: right after an ETH or XRP invocation places an order, the
\* Kelly fractions of all orders the two bots placed in the hour sum to at
\* most that bot's MAX_KELLY_FRACTION (0.15 ETH, 0.10 XRP).
CombinedExposureWithinCap ==
    (env.bot \in {"eth", "xrp"} /\ outcome.submitted # <<>>)
    => RLe(SumKelly(orders, {"eth", "xrp"}),
           IF env.bot = "eth" THEN ETH_MAX_KELLY_FRACTION ELSE XRP_MAX_KELLY_FRACTION)

\* C5 as stated: every order of the BTC hourly bot is added to btc_exposure
\* in the hour item that the ETH and XRP bots read.
BTCOrdersRecordedInHourItem ==
    SumKelly(orders, {"btc"})
        = IF positions = None THEN RInt(0) ELSE item_get(positions[1], "btc_exposure")

(***************************************************************************)
(* SOXS backtest (analysis/soxs_short_strategy.py).  Money is held in      *)
(* cents, a date is a day number, a volatility and a rate are held in      *)
(* units of 1/FP, a time to expiry is a number of days (T = days / 365).   *)
(***************************************************************************)
INITIAL_CAPITAL == 1000000

RISK_FREE_RATE == 500

CALL_EXPIRY_DAYS == 365

SCALE_IN_DROP_PCT == 15

LOT_SIZE == 100

CASH_BUFFER_MULTIPLIER == 3

\* max(row['Volatility'], 0.50)
BACKTEST_VOL_FLOOR == 5000

\* sigma = 0.01 when sigma <= 0
SIGMA_FLOOR == 100

\* the calls expiring within ROLL_WITHIN and more than ROLL_AFTER days are rolled
ROLL_WITHIN == 60

ROLL_AFTER == 30

\* a roll is affordable when |roll_cost| < 15% of cash
ROLL_CASH_PCT == 15

LN2 == 6931

RECURSIVE LogReduce(_, _, _)
\* <<n', d', k>> with n / d = 2^k * n' / d' and 1 <= n' / d' < 2
LogReduce(n, d, k) ==
    IF n >= 2 * d THEN LogReduce(n, 2 * d, k + 1)
    ELSE IF n < d THEN LogReduce(2 * n, d, k - 1)
    ELSE <<n, d, k>>

\* np.log(n / d) in units of 1/FP, for n > 0 and d > 0
np_log(n, d) ==
    LET m == LogReduce(n, d, 0)
        y == ((m[1] - m[2]) * FP) \div (m[1] + m[2])
        y2 == (y * y) \div FP
        h4 == FP \div 9
        h3 == FP \div 7 + (y2 * h4) \div FP
        h2 == FP \div 5 + (y2 * h3) \div FP
        h1 == FP \div 3 + (y2 * h2) \div FP
        h0 == FP + (y2 * h1) \div FP
    IN  m[3] * LN2 + 2 * ((y * h0) \div FP)

\* np.sqrt(days / 365) in units of 1/FP
sqrt_years(days) == ISqrtBetween(0, 4 * FP, ((days * FP) \div 365) * FP)

\* floor division that rounds toward minus infinity for either sign of n
FloorDiv(n, d) == IF n >= 0 THEN n \div d ELSE 0 - ((0 - n + d - 1) \div d)

\* the price in cents of a call on a share at S cents struck at K cents
\* black_scholes_call returning the signed difference S - K at expiry
black_scholes_call_signed(S, K, T_days, r, sigma) ==
    IF T_days <= 0 THEN S - K ELSE 0

black_scholes_call(S, K, T_days, r, sigma) ==
    IF T_days <= 0 THEN IMax(0, S - K)
    ELSE LET sig == IF sigma <= 0 THEN SIGMA_FLOOR ELSE sigma
             T == (T_days * FP) \div 365
             root == sqrt_years(T_days)
             sig_root == IMax(1, (sig * root) \div FP)
             drift == ((r + (sig * sig) \div (2 * FP)) * T) \div FP
             d1 == FloorDiv((np_log(S, K) + drift) * 1000, sig_root)
             d2 == d1 - sig_root \div 10
             discount == exp_neg((r * T) \div FP)
         IN  (S * norm_cdf(d1) - ((K * discount) \div FP) * norm_cdf(d2)) \div FP

\* strikes are set CALL_STRIKE_PREMIUM (100%) above the price of the day
CALL_STRIKE_PREMIUM_PCT == 100

Position(shares, entry_price, entry_date) ==
    [shares |-> shares, entry_price |-> entry_price, entry_date |-> entry_date]

CallOption(contracts, strike, expiry_date, premium_paid, entry_date, shares_covered) ==
    [contracts |-> contracts, strike |-> strike, expiry_date |-> expiry_date,
     premium_paid |-> premium_paid, entry_date |-> entry_date,
     shares_covered |-> shares_covered]

RECURSIVE sum_shares(_)
\* sum(p.shares for p in short_positions)
sum_shares(short_positions) ==
    IF short_positions = <<>> THEN 0
    ELSE Head(short_positions).shares + sum_shares(Tail(short_positions))

RECURSIVE sum_proceeds(_)
\* sum(p.shares * p.entry_price for p in short_positions)
sum_proceeds(short_positions) ==
    IF short_positions = <<>> THEN 0
    ELSE Head(short_positions).shares * Head(short_positions).entry_price
         + sum_proceeds(Tail(short_positions))

RECURSIVE sum_contracts(_)
\* sum(c.contracts for c in call_options)
sum_contracts(call_options) ==
    IF call_options = <<>> THEN 0
    ELSE Head(call_options).contracts + sum_contracts(Tail(call_options))

RECURSIVE sum_premium_paid(_)
\* sum(c.premium_paid for c in call_options)
sum_premium_paid(call_options) ==
    IF call_options = <<>> THEN 0
    ELSE Head(call_options).premium_paid + sum_premium_paid(Tail(call_options))

RECURSIVE mark_calls(_, _, _, _)
\* the Black-Scholes value of the calls still to expire
mark_calls(call_options, date, price, volatility) ==
    IF call_options = <<>> THEN 0
    ELSE LET c == Head(call_options)
             days_to_expiry == c.expiry_date - date
             rest == mark_calls(Tail(call_options), date, price, volatility)
         IN  IF days_to_expiry > 0
             THEN black_scholes_call(price, c.strike, days_to_expiry, RISK_FREE_RATE,
                                     volatility) * c.contracts * 100 + rest
             ELSE rest

RECURSIVE expire_calls_after_expiry_day(_, _, _)
\* the expiration pass with a call kept through the day of its expiry
expire_calls_after_expiry_day(call_options, date, price) ==
    IF call_options = <<>> THEN [received |-> 0, kept |-> <<>>, trades |-> <<>>]
    ELSE LET c == Head(call_options)
         IN  Bind(expire_calls_after_expiry_day(Tail(call_options), date, price), LAMBDA rest :
             IF c.expiry_date - date < 0
             THEN [received |-> rest.received
                                + (IF price > c.strike
                                   THEN (price - c.strike) * c.contracts * 100 ELSE 0),
                   kept |-> rest.kept,
                   trades |-> rest.trades
                              \o <<[action |-> "CALL EXPIRED", strike |-> c.strike,
                                    itm |-> price > c.strike, price |-> price]>>]
             ELSE [received |-> rest.received, kept |-> <<c>> \o rest.kept,
                   trades |-> rest.trades])

RECURSIVE expire_calls(_, _, _)
\* the expiration pass: the intrinsic value received, the calls kept and the
\* 'CALL EXPIRED' trades, logged from the last expired call to the first
expire_calls(call_options, date, price) ==
    IF call_options = <<>> THEN [received |-> 0, kept |-> <<>>, trades |-> <<>>]
    ELSE LET c == Head(call_options)
         IN  Bind(expire_calls(Tail(call_options), date, price), LAMBDA rest :
             IF c.expiry_date - date <= 0
             THEN [received |-> rest.received
                                + (IF price > c.strike
                                   THEN (price - c.strike) * c.contracts * 100 ELSE 0),
                   kept |-> rest.kept,
                   trades |-> rest.trades
                              \o <<[action |-> "CALL EXPIRED", strike |-> c.strike,
                                    itm |-> price > c.strike, price |-> price]>>]
             ELSE [received |-> rest.received, kept |-> <<c>> \o rest.kept,
                   trades |-> rest.trades])

\* a short lot and its protective calls are opened at the price of the day
open_short(action, lots, cash, short_positions, call_options, date, price, volatility) ==
    LET shares == lots * LOT_SIZE
        call_strike == (price * (100 + CALL_STRIKE_PREMIUM_PCT)) \div 100
        expiry == date + CALL_EXPIRY_DAYS
        call_premium == black_scholes_call(price, call_strike, CALL_EXPIRY_DAYS,
                                           RISK_FREE_RATE, volatility)
        total_premium == call_premium * lots * 100
    IN  [cash |-> cash + shares * price - total_premium,
         short_positions |-> Append(short_positions, Position(shares, price, date)),
         call_options |-> Append(call_options,
                                 CallOption(lots, call_strike, expiry, total_premium,
                                            date, lots * 100)),
         last_scale_in_price |-> Some(price),
         trades |-> <<[action |-> action, shares |-> shares, price |-> price,
                       call_strike |-> call_strike, call_premium |-> total_premium,
                       call_contracts |-> lots, call_expiry |-> expiry]>>]

\* nothing is opened
no_entry(cash, short_positions, call_options, last_scale_in_price) ==
    [cash |-> cash, short_positions |-> short_positions, call_options |-> call_options,
     last_scale_in_price |-> last_scale_in_price, trades |-> <<>>]

\* the trading logic with the last entry price following the price of every
\* later day, whether a lot is added or not
trading_logic_reanchored(i, cash, short_positions, call_options, last_scale_in_price, date, price, volatility) ==
    LET short_value == sum_shares(short_positions) * price
        skip == no_entry(cash, short_positions, call_options, last_scale_in_price)
        moved == no_entry(cash, short_positions, call_options, Some(price))
    IN  IF Len(short_positions) = 0 /\ i = 0
        THEN LET lots_to_short == INITIAL_CAPITAL \div (2 * price * LOT_SIZE)
             IN  IF lots_to_short * LOT_SIZE >= LOT_SIZE
                 THEN open_short("INITIAL SHORT + CALL", lots_to_short, cash,
                                 short_positions, call_options, date, price, volatility)
                 ELSE skip
        ELSE IF last_scale_in_price # None /\ i > 0
        THEN LET last == last_scale_in_price[1]
                 available_for_shorting == cash - CASH_BUFFER_MULTIPLIER * short_value
                 lots_to_add == available_for_shorting \div (2 * price * LOT_SIZE)
             IN  IF /\ (last - price) * 100 >= SCALE_IN_DROP_PCT * last
                    /\ available_for_shorting > 0
                    /\ lots_to_add * LOT_SIZE >= LOT_SIZE
                 THEN open_short("SCALE-IN SHORT + CALL", lots_to_add, cash,
                                 short_positions, call_options, date, price, volatility)
                 ELSE moved
        ELSE skip

\* the trading logic with the initial position opened on the first day on
\* which nothing is held, whichever day that is
trading_logic_late_entry(i, cash, short_positions, call_options, last_scale_in_price, date, price, volatility) ==
    LET short_value == sum_shares(short_positions) * price
        skip == no_entry(cash, short_positions, call_options, last_scale_in_price)
    IN  IF Len(short_positions) = 0
        THEN LET lots_to_short == INITIAL_CAPITAL \div (2 * price * LOT_SIZE)
             IN  IF lots_to_short * LOT_SIZE >= LOT_SIZE
                 THEN open_short("INITIAL SHORT + CALL", lots_to_short, cash,
                                 short_positions, call_options, date, price, volatility)
                 ELSE skip
        ELSE IF last_scale_in_price # None /\ i > 0
        THEN LET last == last_scale_in_price[1]
                 available_for_shorting == cash - CASH_BUFFER_MULTIPLIER * short_value
                 lots_to_add == available_for_shorting \div (2 * price * LOT_SIZE)
             IN  IF /\ (last - price) * 100 >= SCALE_IN_DROP_PCT * last
                    /\ available_for_shorting > 0
                    /\ lots_to_add * LOT_SIZE >= LOT_SIZE
                 THEN open_short("SCALE-IN SHORT + CALL", lots_to_add, cash,
                                 short_positions, call_options, date, price, volatility)
                 ELSE skip
        ELSE skip

\* the trading logic of a day: the initial position on the first day, a
\* scale-in on a later day
trading_logic(i, cash, short_positions, call_options, last_scale_in_price, date, price, volatility) ==
    LET short_value == sum_shares(short_positions) * price
        skip == no_entry(cash, short_positions, call_options, last_scale_in_price)
    IN  IF Len(short_positions) = 0 /\ i = 0
        THEN LET lots_to_short == INITIAL_CAPITAL \div (2 * price * LOT_SIZE)
             IN  IF lots_to_short * LOT_SIZE >= LOT_SIZE
                 THEN open_short("INITIAL SHORT + CALL", lots_to_short, cash,
                                 short_positions, call_options, date, price, volatility)
                 ELSE skip
        ELSE IF last_scale_in_price # None /\ i > 0
        THEN LET last == last_scale_in_price[1]
                 available_for_shorting == cash - CASH_BUFFER_MULTIPLIER * short_value
                 lots_to_add == available_for_shorting \div (2 * price * LOT_SIZE)
             IN  IF /\ (last - price) * 100 >= SCALE_IN_DROP_PCT * last
                    /\ available_for_shorting > 0
                    /\ lots_to_add * LOT_SIZE >= LOT_SIZE
                 THEN open_short("SCALE-IN SHORT + CALL", lots_to_add, cash,
                                 short_positions, call_options, date, price, volatility)
                 ELSE skip
        ELSE skip

RECURSIVE roll_calls_until_expiry(_, _, _, _, _)
\* the roll pass with every call of the last 60 days considered, whether or
\* not more than 30 days remain
roll_calls_until_expiry(call_options, cash, date, price, volatility) ==
    IF call_options = <<>> THEN [cash |-> cash, call_options |-> <<>>, trades |-> <<>>]
    ELSE LET call_ == Head(call_options)
             days_to_expiry == call_.expiry_date - date
             new_strike == (price * (100 + CALL_STRIKE_PREMIUM_PCT)) \div 100
             new_expiry == date + CALL_EXPIRY_DAYS
         IN  Bind(black_scholes_call(price, call_.strike, days_to_expiry, RISK_FREE_RATE,
                                     volatility), LAMBDA old_value :
             Bind(black_scholes_call(price, new_strike, CALL_EXPIRY_DAYS, RISK_FREE_RATE,
                                     volatility), LAMBDA new_premium :
             LET roll_cost == (new_premium - old_value) * call_.contracts * 100
                 rolled == /\ 0 < days_to_expiry /\ days_to_expiry <= ROLL_WITHIN
                           /\ Abs(roll_cost) * 100 < cash * ROLL_CASH_PCT
             IN  Bind(roll_calls_until_expiry(Tail(call_options),
                                 IF rolled THEN cash - roll_cost ELSE cash,
                                 date, price, volatility), LAMBDA rest :
                 IF rolled
                 THEN [cash |-> rest.cash,
                       call_options |->
                           <<CallOption(call_.contracts, new_strike, new_expiry,
                                        call_.premium_paid + IMax(0, roll_cost), date,
                                        call_.shares_covered)>> \o rest.call_options,
                       trades |-> <<[action |-> "ROLL CALL", old_strike |-> call_.strike,
                                     new_strike |-> new_strike, roll_cost |-> roll_cost,
                                     new_expiry |-> new_expiry]>> \o rest.trades]
                 ELSE [cash |-> rest.cash,
                       call_options |-> <<call_>> \o rest.call_options,
                       trades |-> rest.trades])))

RECURSIVE roll_calls(_, _, _, _, _)
\* the roll pass, call by call with the cash the earlier rolls left
roll_calls(call_options, cash, date, price, volatility) ==
    IF call_options = <<>> THEN [cash |-> cash, call_options |-> <<>>, trades |-> <<>>]
    ELSE LET call_ == Head(call_options)
             days_to_expiry == call_.expiry_date - date
             new_strike == (price * (100 + CALL_STRIKE_PREMIUM_PCT)) \div 100
             new_expiry == date + CALL_EXPIRY_DAYS
         IN  Bind(black_scholes_call(price, call_.strike, days_to_expiry, RISK_FREE_RATE,
                                     volatility), LAMBDA old_value :
             Bind(black_scholes_call(price, new_strike, CALL_EXPIRY_DAYS, RISK_FREE_RATE,
                                     volatility), LAMBDA new_premium :
             LET roll_cost == (new_premium - old_value) * call_.contracts * 100
                 rolled == /\ ROLL_AFTER < days_to_expiry /\ days_to_expiry <= ROLL_WITHIN
                           /\ Abs(roll_cost) * 100 < cash * ROLL_CASH_PCT
             IN  Bind(roll_calls(Tail(call_options),
                                 IF rolled THEN cash - roll_cost ELSE cash,
                                 date, price, volatility), LAMBDA rest :
                 IF rolled
                 THEN [cash |-> rest.cash,
                       call_options |->
                           <<CallOption(call_.contracts, new_strike, new_expiry,
                                        call_.premium_paid + IMax(0, roll_cost), date,
                                        call_.shares_covered)>> \o rest.call_options,
                       trades |-> <<[action |-> "ROLL CALL", old_strike |-> call_.strike,
                                     new_strike |-> new_strike, roll_cost |-> roll_cost,
                                     new_expiry |-> new_expiry]>> \o rest.trades]
                 ELSE [cash |-> rest.cash,
                       call_options |-> <<call_>> \o rest.call_options,
                       trades |-> rest.trades])))

\* cash / short_value, or None for float('inf')
cash_buffer_ratio(cash, short_value) ==
    IF short_value > 0 THEN Some(R(cash, short_value)) ELSE None

\* one iteration of run_backtest's loop: the row of day i is (date, price,
\* row_volatility) and b holds the local variables the earlier days left
run_backtest_day(b, date, price, row_volatility) ==
    LET volatility == IMax(row_volatility, BACKTEST_VOL_FLOOR)
    IN  Bind(expire_calls(b.call_options, date, price), LAMBDA ex :
        Bind(trading_logic(b.i, b.cash + ex.received, b.short_positions, ex.kept,
                           b.last_scale_in_price, date, price, volatility), LAMBDA tr :
        Bind(roll_calls(tr.call_options, tr.cash, date, price, volatility), LAMBDA ro :
        Bind(mark_calls(ro.call_options, date, price, volatility), LAMBDA call_value :
        LET total_short_shares == sum_shares(tr.short_positions)
            short_value == total_short_shares * price
            short_proceeds == sum_proceeds(tr.short_positions)
            short_pnl == short_proceeds - short_value
        IN  [pc |-> "run", i |-> b.i + 1, date |-> date, cash |-> ro.cash,
             short_positions |-> tr.short_positions,
             call_options |-> ro.call_options,
             last_scale_in_price |-> tr.last_scale_in_price,
             trades |-> ex.trades \o tr.trades \o ro.trades,
             results |-> Some([date |-> date, price |-> price,
                               volatility |-> volatility, cash |-> ro.cash,
                               short_shares |-> total_short_shares,
                               short_value |-> short_value,
                               short_proceeds |-> short_proceeds,
                               short_pnl |-> short_pnl, call_value |-> call_value,
                               net_liquidation |-> ro.cash + short_pnl + call_value,
                               num_calls |-> Len(ro.call_options),
                               total_call_premium |-> sum_premium_paid(ro.call_options),
                               num_call_contracts |-> sum_contracts(ro.call_options),
                               cash_buffer_ratio |->
                                   cash_buffer_ratio(ro.cash, short_value)])]))))

(***************************************************************************)
(* Backtest specification: run_backtest's loop, one day per step.  The     *)
(* rows of the price history are drawn day by day.                         *)
(***************************************************************************)
BacktestDays == 3

\* (Close in cents, Volatility in units of 1/FP) of a row
BacktestRows == {<<5000, 3000>>, <<5000, 8000>>, <<4000, 3000>>, <<2500, 3000>>, <<12000, 3000>>}

\* calendar days from one row to the next
BacktestGaps == {1, 155, 340, 365}

\* the variables of the bots, which the other specifications leave alone
bots == <<kelly_call, env, pc, positions, orders, trade_log, outcome, invocations>>

BotsIdle == NoInvocation /\ kelly_call = NoKellyCall

BacktestInit ==
    /\ BotsIdle
    /\ call = NotRunning /\ store = NotRunning /\ weather = NotRunning
    /\ procs = NotRunning /\ dash = NotRunning
    /\ bt = [pc |-> "run", i |-> 0, date |-> 0, cash |-> INITIAL_CAPITAL,
             short_positions |-> <<>>, call_options |-> <<>>,
             last_scale_in_price |-> None, trades |-> <<>>, results |-> None]

BacktestDay ==
    /\ bt.pc = "run" /\ bt.i < BacktestDays
    /\ \E row \in BacktestRows, gap \in BacktestGaps :
           \E next \in {run_backtest_day(bt, bt.date + gap, row[1], row[2])} :
               bt' = next
    /\ UNCHANGED <<bots, call, store, weather, procs, dash>>

BacktestNext == BacktestDay

SpecBacktest == BacktestInit /\ [][BacktestNext]_vars

(***************************************************************************)
(* Properties of the backtest.                                             *)
(***************************************************************************)
\* the first day has been simulated and the initial position was opened on it
InitialPositionOpened ==
    /\ bt.pc = "run" /\ bt.i = 1
    /\ Len(bt.short_positions) = 1

\* C11 as stated: when the initial position is opened on day 1 the shares
\* shorted are floor(INITIAL_CAPITAL / (2 * price) / 100) * 100 and, with the
\* short proceeds received and the hedge premium paid, cash is at least
\* CASH_BUFFER_MULTIPLIER times the short value: the cash_buffer_ratio recorded
\* for the day is >= 3.0.
InitialEntryKeepsBuffer ==
    InitialPositionOpened
    => /\ bt.short_positions[1].shares
              = (INITIAL_CAPITAL \div (2 * bt.results[1].price * 100)) * 100
       /\ bt.cash >= CASH_BUFFER_MULTIPLIER * bt.results[1].short_value
       /\ bt.results[1].cash_buffer_ratio # None
       /\ RLe(RInt(CASH_BUFFER_MULTIPLIER), bt.results[1].cash_buffer_ratio[1])

(***************************************************************************)
(* The normal-CDF approximators to eight decimals.  A number x is held as  *)
(* the integer x * E8; products are formed limb by limb in base E4.        *)
(***************************************************************************)
E4 == 100 * 100

E8 == E4 * E4

\* a * b of two numbers held in units of 1/E8
mul8(a, b) ==
    LET x == Abs(a)
        y == Abs(b)
        xh == x \div E4
        xl == x % E4
        yh == y \div E4
        yl == y % E4
        m == xh * yh + (xh * yl + xl * yh) \div E4 + (xl * yl) \div E8
    IN  IF (a < 0) = (b < 0) THEN m ELSE 0 - m

\* 1 / x for x >= 1: an estimate to four digits refined by two Newton steps
recip8(x) ==
    Bind((1000000000 \div (x \div E4)) * 1000, LAMBDA t0 :
    Bind(mul8(x, t0), LAMBDA xt0 :
    Bind(mul8(t0, 2 * E8 - xt0), LAMBDA t1 :
    Bind(mul8(x, t1), LAMBDA xt1 : mul8(t1, 2 * E8 - xt1)))))

RECURSIVE horner8(_, _)
\* cs[1] + t * (cs[2] + t * (cs[3] + ...))
horner8(t, cs) ==
    IF Len(cs) = 1 THEN cs[1]
    ELSE Bind(horner8(t, Tail(cs)), LAMBDA inner : cs[1] + mul8(t, inner))

\* exp(-i) for whole i
ExpNegWhole8(i) ==
    IF i > 18 THEN 0
    ELSE <<100000000, 36787944, 13533528, 4978707, 1831564, 673795, 247875, 91188,
           33546, 12341, 4540, 1670, 614, 226, 83, 31, 11, 4, 2>>[i + 1]

RECURSIVE ExpNegSeries8(_, _)
\* the alternating series of exp(-f), 0 <= f < 1, from term k on (Horner form)
ExpNegSeries8(f, k) ==
    IF k > 13 THEN E8
    ELSE Bind(ExpNegSeries8(f, k + 1), LAMBDA inner : E8 - mul8(f, inner) \div k)

\* math.exp(-x) for x >= 0
exp_neg8(x) ==
    Bind(ExpNegSeries8(x % E8, 1), LAMBDA series : mul8(ExpNegWhole8(x \div E8), series))

\* math.exp(-x * x) for x >= 0: below 1/E8 once x exceeds 4.5
exp_neg_sq8(x) == IF x > 45000 * E4 THEN 0 ELSE exp_neg8(mul8(x, x))

\* the polynomial's coefficient 0.3193815 mistyped as 0.3913815
range_norm_cdf_typo(z) ==
    IF z < 0 - 6 * E8 THEN 0
    ELSE IF z > 6 * E8 THEN E8
    ELSE Bind(recip8(E8 + mul8(23164190, Abs(z))), LAMBDA t :
         Bind(exp_neg8(mul8(z \div 2, z)), LAMBDA e :
         Bind(horner8(t, <<39138150, 0 - 35656380, 178147800, 0 - 182125600,
                           133027400>>), LAMBDA poly :
         Bind(mul8(mul8(mul8(39894230, e), t), poly), LAMBDA p :
         IF z > 0 THEN E8 - p ELSE p))))

\* norm_cdf of the range bot (the hourly bots nest the same function)
range_norm_cdf(z) ==
    IF z < 0 - 6 * E8 THEN 0
    ELSE IF z > 6 * E8 THEN E8
    ELSE Bind(recip8(E8 + mul8(23164190, Abs(z))), LAMBDA t :
         Bind(exp_neg8(mul8(z \div 2, z)), LAMBDA e :
         Bind(horner8(t, <<31938150, 0 - 35656380, 178147800, 0 - 182125600,
                           133027400>>), LAMBDA poly :
         Bind(mul8(mul8(mul8(39894230, e), t), poly), LAMBDA p :
         IF z > 0 THEN E8 - p ELSE p))))

\* normal_cdf of the dashboard
normal_cdf(x) ==
    Bind(mul8(Abs(x), 70710678), LAMBDA ax :
    Bind(recip8(E8 + mul8(32759110, ax)), LAMBDA t :
    Bind(exp_neg_sq8(ax), LAMBDA e :
    Bind(horner8(t, <<25482959, 0 - 28449674, 142141374, 0 - 145315203,
                      106140543>>), LAMBDA poly :
    Bind(E8 - mul8(mul8(poly, t), e), LAMBDA y :
    (E8 + (IF x < 0 THEN 0 - y ELSE y)) \div 2)))))

(***************************************************************************)
(* Model specification: one call of one function of the probability and    *)
(* pricing layer.  The arguments are drawn in the initial state and the    *)
(* call returns.                                                           *)
(***************************************************************************)
\* z runs over the multiples of 0.01 from -ZMax / 100 to ZMax / 100
ZMax == 650

ZStep == E8 \div 100

ZInputs == {k * ZStep : k \in (0 - ZMax)..ZMax}

Call(fn, args) == [fn |-> fn, args |-> args, pc |-> "call", result |-> None]

\* the CDF is evaluated at z, at -z and at the next point of the grid
CdfInit == \E z \in ZInputs, fn \in {"norm_cdf", "normal_cdf"} : call = Call(fn, <<z>>)

Return_(result) ==
    /\ call' = [call EXCEPT !.pc = "done", !.result = Some(result)]
    /\ UNCHANGED <<bots, bt, store, weather, procs, dash>>

CallNormCdf ==
    /\ call.pc = "call" /\ call.fn = "norm_cdf"
    /\ \E value \in {range_norm_cdf(call.args[1])} :
       \E mirrored \in {range_norm_cdf(0 - call.args[1])} :
       \E next \in {range_norm_cdf(call.args[1] + ZStep)} :
           Return_([value |-> value, mirrored |-> mirrored, next |-> next])

CallNormalCdf ==
    /\ call.pc = "call" /\ call.fn = "normal_cdf"
    /\ \E value \in {normal_cdf(call.args[1])} :
       \E mirrored \in {normal_cdf(0 - call.args[1])} :
       \E next \in {normal_cdf(call.args[1] + ZStep)} :
           Return_([value |-> value, mirrored |-> mirrored, next |-> next])

\* prices in cents, days to expiry, rate and volatility in units of 1/FP
BlackScholesInit ==
    \E S \in {2500, 5000, 12000}, K \in {5000, 10000}, T_days \in {0 - 30, 0, 1, 365},
       r \in {0, RISK_FREE_RATE}, sigma \in {0 - 100, 0, 5000, 8000} :
        call = Call("black_scholes_call", <<S, K, T_days, r, sigma>>)

CallBlackScholes ==
    /\ call.pc = "call" /\ call.fn = "black_scholes_call"
    /\ \E price \in {black_scholes_call(call.args[1], call.args[2], call.args[3],
                                        call.args[4], call.args[5])} :
           Return_(price)

\* vol_scaled of the three calculate_*_probability functions, in units of
\* 1/FP percent, for a measured volatility in hundredths of a percent
vol_scaled_no_floor(floor_pct, vol_std_pct, minutes) ==
    IF vol_std_pct <= 0 \/ minutes <= 0 THEN None
    ELSE Some((vol_std_pct * sqrt_minutes_over_15(minutes)) \div 100)

vol_scaled(floor_pct, vol_std_pct, minutes) ==
    IF vol_std_pct <= 0 \/ minutes <= 0 THEN None
    ELSE LET vol_with_floor == IMax(vol_std_pct, floor_pct)
         IN  Some((vol_with_floor * sqrt_minutes_over_15(minutes)) \div 100)

MIN_VOLATILITY_PCT(bot) ==
    CASE bot = "ETH" -> ETH_MIN_VOLATILITY_PCT
      [] bot = "XRP" -> XRP_MIN_VOLATILITY_PCT
      [] bot = "RANGE" -> RANGE_MIN_VOLATILITY_PCT

RawVolInputs == {0, 1, 14, 15, 16, 19, 20, 21, 50, 1100}

HorizonInputs == {0, 1, 5, 15, 30, 60}

VolScaledInit ==
    \E bot \in {"ETH", "XRP", "RANGE"}, raw_vol \in RawVolInputs, minutes \in HorizonInputs :
        call = Call("vol_scaled", <<bot, raw_vol, minutes>>)

CallVolScaled ==
    /\ call.pc = "call" /\ call.fn = "vol_scaled"
    /\ \E scaled \in {vol_scaled(MIN_VOLATILITY_PCT(call.args[1]), call.args[2], call.args[3])} :
           Return_(scaled)

\* vol_scaled of calculate_range_strikes in units of 1/FP percent, for a
\* 15-minute volatility in hundredths of a percent
dashboard_vol_scaled(volatility, minutes_to_settlement) ==
    LET scaled == IF volatility > 0
                  THEN (IMax(volatility, 10) * sqrt_minutes_over_15(minutes_to_settlement))
                       \div 100
                  ELSE (300 * ISqrtBetween(0, 4 * FP,
                                ((minutes_to_settlement * FP) \div 1440) * FP)) \div 100
    IN  IMax(scaled, 1500)

\* (strike / btc_price - 1) * 100 / vol_scaled in units of 1/E8
dashboard_z(btc_price, strike, scaled) ==
    IF scaled > 0
    THEN (((((strike - btc_price) * 1000000) \div btc_price) * E4) \div scaled) * E4
    ELSE 0

\* fair_yes and fair_no of one 'between' market of calculate_range_strikes
calculate_range_strikes(btc_price, floor_strike, cap_strike, volatility, minutes_to_settlement) ==
    Bind(dashboard_vol_scaled(volatility, minutes_to_settlement), LAMBDA scaled :
    Bind(normal_cdf(dashboard_z(btc_price, cap_strike, scaled)), LAMBDA at_cap :
    Bind(normal_cdf(dashboard_z(btc_price, floor_strike, scaled)), LAMBDA at_floor :
    [fair_yes |-> at_cap - at_floor, fair_no |-> E8 - (at_cap - at_floor),
     fair_no_cents |-> (E8 - (at_cap - at_floor) + E8 \div 200) \div (E8 \div 100)])))

SpotInputs == {100000}

RangeFloorInputs == {98000, 99500, 99750, 100000, 100500, 101500}

RangeWidthInputs == {1, 250}

RangeVolInputs == {5, 25, 100, 400}

RangeHorizonInputs == {5, 15, 60}

RangeInit ==
    \E btc_price \in SpotInputs, floor_strike \in RangeFloorInputs, width \in RangeWidthInputs,
       vol \in RangeVolInputs, minutes \in RangeHorizonInputs,
       fn \in {"calculate_range_probability", "calculate_range_strikes"} :
        call = Call(fn, <<btc_price, floor_strike, floor_strike + width, vol, minutes>>)

CallRangeProbability ==
    /\ call.pc = "call" /\ call.fn = "calculate_range_probability"
    /\ \E probs \in {calculate_range_probability(call.args[1], call.args[2], call.args[3],
                                                 call.args[4], call.args[5])} :
           Return_(probs[1])

CallRangeStrikes ==
    /\ call.pc = "call" /\ call.fn = "calculate_range_strikes"
    /\ \E fair \in {calculate_range_strikes(call.args[1], call.args[2], call.args[3],
                                            call.args[4], call.args[5])} :
           Return_(fair)

\* 'Bearer ' as the sequence of its characters
BearerPrefix == <<"B", "e", "a", "r", "e", "r", " ">>

\* str.startswith
startswith(s, prefix) == Len(s) >= Len(prefix) /\ SubSeq(s, 1, Len(prefix)) = prefix

TokenA == <<"k", "1">>

TokenB == <<"k", "2">>

\* the values of the API_BEARER_TOKEN* environment variables
ValidTokenInputs == {<<>>, <<TokenA>>, <<TokenA, TokenB>>}

\* the Authorization header; '' when the request has none
AuthHeaderInputs ==
    {<<>>, BearerPrefix \o TokenA, BearerPrefix \o TokenB, BearerPrefix \o <<"x">>,
     BearerPrefix, <<"b", "e", "a", "r", "e", "r", " ">> \o TokenA, TokenA,
     <<"B", "a", "s", "i", "c", " ">> \o TokenA}

\* lambda_handler of the volatility API: the response, and whether
\* get_volatility was called; item is the VOL/LATEST item and get_raises tells
\* whether the read raises
volatility_api_handler(valid_tokens, auth_header, item, get_raises) ==
    LET provided_token == SubSeq(auth_header, 8, Len(auth_header))
        fetch == IF get_raises THEN [statusCode |-> 500, data |-> None, read |-> TRUE]
                 ELSE IF item = None THEN [statusCode |-> 404, data |-> None, read |-> TRUE]
                 ELSE [statusCode |-> 200, data |-> item, read |-> TRUE]
    IN  IF valid_tokens # <<>> /\ ~startswith(auth_header, BearerPrefix)
        THEN [statusCode |-> 401, data |-> None, read |-> FALSE]
        ELSE IF valid_tokens # <<>>
                /\ provided_token \notin {valid_tokens[i] : i \in DOMAIN valid_tokens}
        THEN [statusCode |-> 403, data |-> None, read |-> FALSE]
        ELSE fetch

VolatilityApiInit ==
    \E valid_tokens \in ValidTokenInputs, auth_header \in AuthHeaderInputs,
       item \in {None, Some("volatility")}, get_raises \in BOOLEAN :
        call = Call("volatility_api", <<valid_tokens, auth_header, item, get_raises>>)

CallVolatilityApi ==
    /\ call.pc = "call" /\ call.fn = "volatility_api"
    /\ Return_(volatility_api_handler(call.args[1], call.args[2], call.args[3], call.args[4]))

\* vol_scaled of the BTC hourly bot's calculate_model_probability in units of
\* 1/FP percent, for a volatility in hundredths of a percent
btc_vol_scaled(vol_std_pct, minutes_to_settlement) ==
    (vol_std_pct * sqrt_minutes_over_15(minutes_to_settlement)) \div 100

\* the volatility the BTC handler hands to its probability model: the
\* reading of the dynamic window, passed with the window as the minutes to
\* settlement
btc_model_volatility(vol_data, minutes_to_hour) ==
    LET dyn == get_dynamic_volatility(vol_data, minutes_to_hour)
    IN  [window |-> dyn.window, vol_std |-> dyn.vol_std,
         vol_scaled |-> btc_vol_scaled(dyn.vol_std, dyn.window)]

\* a stored volatility item with a different reading in every window
WindowVolInputs ==
    {VolProfile(30, 30), VolProfile(1500, 30),
     [w \in {5, 7, 10, 12, 15} |-> [std |-> 4 * w, samples |-> w]],
     [w \in {5, 7, 10, 12, 15} |-> [std |-> 200 - 10 * w, samples |-> 2 * w]]}

MinutesToHourInputs == 1..15 \cup {20, 30}

ModelVolatilityInit ==
    \E vol_data \in WindowVolInputs, minutes_to_hour \in MinutesToHourInputs :
        call = Call("btc_model_volatility", <<vol_data, minutes_to_hour>>)

CallModelVolatility ==
    /\ call.pc = "call" /\ call.fn = "btc_model_volatility"
    /\ \E used \in {btc_model_volatility(call.args[1], call.args[2])} : Return_(used)

ModelInit ==
    /\ BotsIdle
    /\ bt = NotRunning /\ store = NotRunning /\ weather = NotRunning
    /\ procs = NotRunning /\ dash = NotRunning
    /\ (CdfInit \/ BlackScholesInit
        \/ VolScaledInit
        \/ RangeInit
        \/ VolatilityApiInit
        \/ ModelVolatilityInit)

ModelNext == CallNormCdf \/ CallNormalCdf
    \/ CallBlackScholes
    \/ CallVolScaled
    \/ CallRangeProbability \/ CallRangeStrikes
    \/ CallVolatilityApi
    \/ CallModelVolatility

SpecModel == ModelInit /\ [][ModelNext]_vars

(***************************************************************************)
(* Properties of the probability and pricing functions.                    *)
(***************************************************************************)
CdfReturned == call.pc = "done" /\ call.fn \in {"norm_cdf", "normal_cdf"}

\* C12: for every z the normal-CDF approximator of the bots (norm_cdf) and of
\* the dashboard (normal_cdf) satisfies cdf(-z) = 1 - cdf(z) within 1e-6 and
\* is non-decreasing from z to z + 0.01, across z = -6, z = 0 and z = 6 too,
\* and its values lie in [0, 1].
CdfSymmetricAndMonotone ==
    CdfReturned
    => /\ Abs(call.result[1].mirrored - (E8 - call.result[1].value)) <= E8 \div 1000000
       /\ call.result[1].value <= call.result[1].next
       /\ 0 <= call.result[1].value /\ call.result[1].value <= E8

\* C12 witness: norm_cdf evaluated at z = 0, where the two branches of its
\* last line meet: the value is just below one half and the next one above.
CdfBranchesMeetAtZero ==
    /\ call.pc = "done" /\ call.fn = "norm_cdf" /\ call.args = <<0>>
    /\ call.result[1].value < E8 \div 2
    /\ call.result[1].mirrored = call.result[1].value
    /\ call.result[1].next > E8 \div 2

\* C13: black_scholes_call(S, K, T, r, sigma) with T <= 0 returns exactly
\* max(0, S - K), whatever r and sigma are (sigma <= 0 included).
ExpiredCallWorthIntrinsic ==
    (call.pc = "done" /\ call.fn = "black_scholes_call" /\ call.args[3] <= 0)
    => call.result = Some(IF call.args[1] > call.args[2]
                          THEN call.args[1] - call.args[2] ELSE 0)

\* C13 witness: an out-of-the-money call valued at T = 0 with sigma = 0 is
\* worth nothing.
ExpiredCallOutOfMoney ==
    /\ call.pc = "done" /\ call.fn = "black_scholes_call"
    /\ call.args[3] = 0 /\ call.args[5] = 0 /\ call.args[1] < call.args[2]
    /\ call.result = Some(0)

VolScaledReturned == call.pc = "done" /\ call.fn = "vol_scaled"

\* max(raw_vol, floor) * sqrt(minutes / 15), case by case
FlooredThenScaled ==
    IF call.args[2] >= MIN_VOLATILITY_PCT(call.args[1])
    THEN (call.args[2] * sqrt_minutes_over_15(call.args[3])) \div 100
    ELSE (MIN_VOLATILITY_PCT(call.args[1]) * sqrt_minutes_over_15(call.args[3])) \div 100

\* C14 as stated: for every raw_vol >= 0 and every horizon > 0 the scaled
\* volatility of the ETH, XRP and range models is
\* max(raw_vol, floor) * sqrt(minutes / 15).
ScaledVolatilityFromZero ==
    (VolScaledReturned /\ call.args[2] >= 0 /\ call.args[3] > 0)
    => call.result[1] = Some(FlooredThenScaled)

\* C14: for every raw_vol > 0 and every horizon > 0 the scaled volatility of
\* the ETH, XRP and range models is max(raw_vol, floor) * sqrt(minutes / 15);
\* a raw_vol of 0 is rejected and no volatility is computed.
ScaledVolatilityFloored ==
    /\ (VolScaledReturned /\ call.args[2] > 0 /\ call.args[3] > 0)
       => call.result[1] = Some(FlooredThenScaled)
    /\ (VolScaledReturned /\ call.args[2] = 0) => call.result[1] = None

\* C14 witness: XRP measured at 0.15% over 60 minutes is floored to 0.20% and
\* doubled.
XrpVolatilityRaisedToFloor ==
    /\ VolScaledReturned /\ call.args = <<"XRP", 15, 60>>
    /\ call.result[1] = Some(XRP_MIN_VOLATILITY_PCT * 2 * 100)

RangeProbabilityReturned == call.pc = "done" /\ call.fn = "calculate_range_probability"

RangeStrikesReturned == call.pc = "done" /\ call.fn = "calculate_range_strikes"

\* C15 as stated: the YES and NO probabilities sum to 1 both in
\* calculate_range_probability of the range bot and in calculate_range_strikes
\* of the dashboard.
YesAndNoSumToOne ==
    /\ RangeProbabilityReturned
       => RAdd(call.result[1].prob_in_range, call.result[1].prob_no_wins) = RInt(1)
    /\ RangeStrikesReturned
       => call.result[1].fair_yes + call.result[1].fair_no = E8

\* C15: fair_yes + fair_no = 1 in the dashboard; in the range bot
\* prob_in_range and the returned NO probability sum to 1 when
\* 1 - prob_in_range <= 0.99, and otherwise the NO probability is 0.99 and the
\* sum is below 1.
YesAndNoSumToOneUnlessCapped ==
    /\ RangeStrikesReturned
       => call.result[1].fair_yes + call.result[1].fair_no = E8
    /\ RangeProbabilityReturned
       => IF RLe(R(1, 100), call.result[1].prob_in_range)
          THEN RAdd(call.result[1].prob_in_range, call.result[1].prob_no_wins) = RInt(1)
          ELSE /\ call.result[1].prob_no_wins = MAX_MODEL_PROB
               /\ RLt(RAdd(call.result[1].prob_in_range, call.result[1].prob_no_wins),
                      RInt(1))

\* C15 witness: a range two percent below spot has a positive in-range
\* probability under one percent, and the range bot returns NO = 0.99.
FarRangeNoCapped ==
    /\ RangeProbabilityReturned
    /\ RLt(RInt(0), call.result[1].prob_in_range)
    /\ RLt(call.result[1].prob_in_range, R(1, 100))
    /\ call.result[1].prob_no_wins = MAX_MODEL_PROB

\* C16: in every bot the win probability handed to the Kelly sizer and used
\* for the edge never exceeds the maximum model probability 0.99.
WinProbabilityCapped ==
    (outcome.model_prob # None /\ (outcome.kelly_called \/ outcome.min_edge # None))
    => RLe(outcome.model_prob[1], MAX_MODEL_PROB)

(***************************************************************************)
(* Price history: the collector's writes (eth_price_collector.py) and the  *)
(* hourly cleanup (scripts/price_history_cleanup.py).  A string is the     *)
(* sequence of its character codes; the clock counts minutes from          *)
(* 2024-01-01T00:00:00 and stays within January 2024.                      *)
(***************************************************************************)
TABLES == {"BTCPriceHistory", "ETHPriceHistory"}

RETENTION_MINUTES == 180

\* the clock stops at ClockMax minutes
ClockMax == 1680

\* at most MaxItems price records per table
MaxItems == 2

Digits2(n) == <<48 + (n \div 10), 48 + (n % 10)>>

\* strftime('%Y%m%d')
strftime_date(ts) == <<50, 48, 50, 52, 48, 49>> \o Digits2((ts \div 1440) + 1)

\* strftime('%H:%M:%S')
strftime_time(ts) ==
    Digits2((ts % 1440) \div 60) \o <<58>> \o Digits2(ts % 60) \o <<58, 48, 48>>

\* strftime('%Y-%m-%dT%H:%M:%S')
strftime_iso(ts) ==
    <<50, 48, 50, 52, 45, 48, 49, 45>> \o Digits2((ts \div 1440) + 1) \o <<84>>
    \o strftime_time(ts)

RECURSIVE StrLt(_, _)
\* a < b as DynamoDB compares strings: byte by byte, a proper prefix first
StrLt(a, b) ==
    IF b = <<>> THEN FALSE
    ELSE IF a = <<>> THEN TRUE
    ELSE IF Head(a) # Head(b) THEN Head(a) < Head(b)
    ELSE StrLt(Tail(a), Tail(b))

\* 'PRICE'
PK_PRICE == <<80, 82, 73, 67, 69>>

\* 'VOL' / 'LATEST'
VolLatestKey == [pk |-> <<86, 79, 76>>, sk |-> <<76, 65, 84, 69, 83, 84>>]

\* the item store_price puts: pk 'PRICE#YYYYMMDD', sk 'HH:MM:SS'
store_price(timestamp) ==
    [pk |-> PK_PRICE \o <<35>> \o strftime_date(timestamp), sk |-> strftime_time(timestamp),
     timestamp_utc |-> timestamp]

\* the item store_volatility puts
store_volatility(now) == VolLatestKey @@ [timestamp_utc |-> now]

IsPriceRecord(item) == Len(item.pk) >= 5 /\ SubSeq(item.pk, 1, 5) = PK_PRICE

\* the table after the scan for pk = 'PRICE' AND sk < cutoff and the batch
\* delete, with the number of items deleted
cleanup_table(items, cutoff_ts) ==
    LET items_to_delete == {item \in items : item.pk = PK_PRICE /\ StrLt(item.sk, cutoff_ts)}
    IN  [items |-> items \ items_to_delete, deleted_count |-> Cardinality(items_to_delete)]

StoreInit ==
    /\ BotsIdle
    /\ call = NotRunning /\ bt = NotRunning /\ weather = NotRunning /\ procs = NotRunning /\ dash = NotRunning
    /\ store = [pc |-> "run", now |-> RETENTION_MINUTES, tables |-> [t \in TABLES |-> {}],
                results |-> None]

StoreUnchanged == UNCHANGED <<bots, call, bt, weather, procs, dash>>

\* one run of the collector writing to the table TABLE_NAME
Collector ==
    /\ store.pc # "idle"
    /\ \E TABLE_NAME \in TABLES :
        /\ Cardinality({item \in store.tables[TABLE_NAME] : IsPriceRecord(item)}) < MaxItems
        /\ store' = [store EXCEPT
               !.pc = "run",
               !.results = None,
               !.tables[TABLE_NAME] =
                   {item \in @ : [pk |-> item.pk, sk |-> item.sk]
                                   \notin {VolLatestKey,
                                           [pk |-> store_price(store.now).pk,
                                            sk |-> store_price(store.now).sk]}}
                   \cup {store_price(store.now), store_volatility(store.now)}]
    /\ StoreUnchanged

ClockSteps == {100, 1400}

Tick ==
    /\ store.pc # "idle"
    /\ \E minutes \in ClockSteps :
        /\ store.now + minutes <= ClockMax
        /\ store' = [store EXCEPT !.pc = "run", !.results = None, !.now = @ + minutes]
    /\ StoreUnchanged

\* lambda_handler of the cleanup; the scan or the batch delete of the tables
\* in failing raises
Cleanup ==
    /\ store.pc # "idle"
    /\ \E failing \in SUBSET TABLES :
        LET cutoff_ts == strftime_iso(store.now - RETENTION_MINUTES)
            cleaned == [t \in TABLES |-> cleanup_table(store.tables[t], cutoff_ts)]
        IN  store' = [store EXCEPT
                !.pc = "cleaned",
                !.tables = [t \in TABLES |-> IF t \in failing THEN store.tables[t]
                                             ELSE cleaned[t].items],
                !.results = Some([t \in TABLES |->
                                IF t \in failing THEN [deleted |-> 0, status |-> "error"]
                                ELSE [deleted |-> cleaned[t].deleted_count,
                                      status |-> "success"]])]
    /\ StoreUnchanged

StoreNext == Collector \/ Tick \/ Cleanup

SpecCleanup == StoreInit /\ [][StoreNext]_vars

\* C17: after the cleanup handler has completed successfully no price record
\* written by the collector more than RETENTION_MINUTES ago remains in
\* BTCPriceHistory or ETHPriceHistory.
NoOldPriceRecordAfterCleanup ==
    (store.pc = "cleaned" /\ \A t \in TABLES : store.results[1][t].status = "success")
    => \A t \in TABLES : \A item \in store.tables[t] :
           IsPriceRecord(item) => item.timestamp_utc >= store.now - RETENTION_MINUTES

(***************************************************************************)
(* Weather liquidity bot (weather/lambda_package): resting bids at 99      *)
(* cents on winning contracts.  Money is in cents; one trading day.        *)
(***************************************************************************)
BID_PRICE_CENTS == 99

\* max_daily_budget_per_contract passed by lambda_handler: $10.50
WEATHER_DAILY_BUDGET_CENTS == 1050

WeatherTickers == {"KXHIGHNY", "KXHIGHCHI"}

\* at most MaxWeatherRuns invocations of the handler
MaxWeatherRuns == 3

RECURSIVE calculate_daily_spend_for_ticker(_, _)
\* cost_cents + fees_cents of the recorded trades of the ticker
calculate_daily_spend_for_ticker(trades, ticker) ==
    IF trades = <<>> THEN 0
    ELSE calculate_daily_spend_for_ticker(Tail(trades), ticker)
         + (IF Head(trades).ticker = ticker
            THEN Head(trades).cost_cents + Head(trades).fees_cents ELSE 0)

\* count * bid_price * 1.03 <= remaining budget
max_contracts(remaining_budget_cents, bid_price) ==
    (remaining_budget_cents * 100) \div (bid_price * 103)

\* what the exchange and DynamoDB do during one pass of the loop
WeatherReplies ==
    [orders_ok : BOOLEAN, status : {"resting", "executed", "no_order_id", "raise"},
     fees : {0, 3}, record_ok : BOOLEAN]

\* one pass of the loop of execute_liquidity_trades for ticker: the state of
\* the ticker afterwards
liquidity_trade(w, todays_trades, ticker, reply, bid_price) ==
    LET daily_spend == calculate_daily_spend_for_ticker(todays_trades, ticker)
        count == max_contracts(WEATHER_DAILY_BUDGET_CENTS - daily_spend, bid_price)
        skip == [resting |-> w.resting[ticker], trades |-> <<>>, spent |-> w.spent[ticker]]
    IN  IF reply.orders_ok /\ w.resting[ticker] # <<>> THEN skip
        ELSE IF daily_spend >= WEATHER_DAILY_BUDGET_CENTS THEN skip
        ELSE IF count < 1 THEN skip
        ELSE IF reply.status \in {"raise", "no_order_id"} THEN skip
        ELSE IF reply.status = "executed"
        THEN [resting |-> w.resting[ticker],
              trades |-> IF reply.record_ok
                         THEN <<[ticker |-> ticker, count |-> count,
                                 cost_cents |-> count * bid_price,
                                 fees_cents |-> reply.fees * count]>>
                         ELSE <<>>,
              spent |-> w.spent[ticker] + count * bid_price + reply.fees * count]
        ELSE [resting |-> Append(w.resting[ticker], count), trades |-> <<>>,
              spent |-> w.spent[ticker]]

RECURSIVE ConcatTrades(_, _)
ConcatTrades(after, tickers) ==
    IF tickers = {} THEN <<>>
    ELSE LET t == CHOOSE x \in tickers : TRUE
         IN  after[t].trades \o ConcatTrades(after, tickers \ {t})

WeatherInit ==
    /\ BotsIdle
    /\ call = NotRunning /\ bt = NotRunning /\ store = NotRunning /\ procs = NotRunning /\ dash = NotRunning
    /\ weather = [pc |-> "run", runs |-> 0,
                  resting |-> [t \in WeatherTickers |-> <<>>],
                  trades |-> <<>>,
                  spent |-> [t \in WeatherTickers |-> 0],
                  placed |-> 0]

WeatherUnchanged == UNCHANGED <<bots, call, bt, store, procs, dash>>

\* lambda_handler finding the winning contracts in opportunities and calling
\* execute_liquidity_trades
WeatherInvoke ==
    /\ weather.pc = "run" /\ weather.runs < MaxWeatherRuns
    /\ \E opportunities \in SUBSET WeatherTickers :
       \E replies \in [opportunities -> WeatherReplies] :
        LET after == [t \in opportunities |->
                         liquidity_trade(weather, weather.trades, t, replies[t],
                                         BID_PRICE_CENTS)]
        IN  weather' = [weather EXCEPT
                !.runs = @ + 1,
                !.resting = [t \in WeatherTickers |->
                                IF t \in opportunities THEN after[t].resting ELSE @[t]],
                !.spent = [t \in WeatherTickers |->
                                IF t \in opportunities THEN after[t].spent ELSE @[t]],
                !.trades = @ \o ConcatTrades(after, opportunities),
                !.placed = Cardinality({t \in opportunities :
                                after[t].resting # weather.resting[t]
                                \/ after[t].spent # weather.spent[t]})]
    /\ WeatherUnchanged

\* lambda_handler with action 'cancel_all_orders'; the cancellations of the
\* tickers in failing raise
WeatherCancelAll ==
    /\ weather.pc = "run" /\ weather.runs < MaxWeatherRuns
    /\ \E failing \in SUBSET WeatherTickers :
        weather' = [weather EXCEPT
            !.runs = @ + 1,
            !.placed = 0,
            !.resting = [t \in WeatherTickers |-> IF t \in failing THEN @[t] ELSE <<>>]]
    /\ WeatherUnchanged

\* the exchange fills the oldest resting order of a ticker and charges fees
RestingOrderFills ==
    /\ weather.pc = "run"
    /\ \E t \in WeatherTickers, fees \in {0, 3} :
        /\ weather.resting[t] # <<>>
        /\ weather' = [weather EXCEPT
               !.resting[t] = Tail(@),
               !.spent[t] = @ + Head(weather.resting[t]) * (BID_PRICE_CENTS + fees)]
    /\ WeatherUnchanged

WeatherNext == WeatherInvoke \/ WeatherCancelAll \/ RestingOrderFills

SpecWeather == WeatherInit /\ [][WeatherNext]_vars

\* C18: for every ticker the total spent during the day on the orders placed
\* by execute_liquidity_trades, fill cost plus fees, later fills of resting
\* orders included, never exceeds max_daily_budget_per_contract.
DailySpendWithinBudget ==
    weather.pc = "run"
    => \A t \in WeatherTickers : weather.spent[t] <= WEATHER_DAILY_BUDGET_CENTS

VolatilityApiReturned == call.pc = "done" /\ call.fn = "volatility_api"

\* the header is 'Bearer <token>' with <token> one of the configured values
BearerOfConfiguredToken ==
    \E i \in DOMAIN call.args[1] : call.args[2] = BearerPrefix \o call.args[1][i]

\* C19: the volatility API answers 200 with data only to a request whose
\* Authorization header is 'Bearer <token>' with a configured token; without a
\* Bearer header it answers 401, with an unknown token 403, and in both cases
\* the volatility item is neither read nor returned.
DataOnlyForConfiguredToken ==
    VolatilityApiReturned
    => /\ call.result[1].statusCode = 200 => BearerOfConfiguredToken
       /\ ~startswith(call.args[2], BearerPrefix)
          => (call.result[1].statusCode = 401 /\ ~call.result[1].read
              /\ call.result[1].data = None)
       /\ (startswith(call.args[2], BearerPrefix) /\ ~BearerOfConfiguredToken)
          => (call.result[1].statusCode = 403 /\ ~call.result[1].read
              /\ call.result[1].data = None)

(***************************************************************************)
(* Two invocations of the ETH bot, or of the XRP bot, for one hour key,    *)
(* interleaved at their accesses to the hour item: the read of             *)
(* get_hour_positions at the start of lambda_handler, and the read and put *)
(* of update_hour_position after the order.                                *)
(***************************************************************************)
Invocations == {1, 2}

RaceEnvs(bot) ==
    {[bot |-> bot, minute |-> m, force |-> FALSE, balance |-> Some(RInt(1000)),
      vol_data |-> Some(VolProfile(30, 30)), price |-> Some(100000),
      markets |-> HourMarkets, order_ok |-> o, log_ok |-> TRUE,
      pos_read_ok |-> r, pos_reread_ok |-> TRUE, pos_put_ok |-> TRUE] :
        m \in {30, 45}, o \in BOOLEAN, r \in BOOLEAN}

Started == [pc |-> "start", seen |-> None, kelly_fraction |-> RInt(0)]

\* the hour item left by an earlier order of the bot for 5% of the bankroll
EarlierItem(bot) ==
    IF bot = "eth"
    THEN eth_update_hour_position(None, "eth", R(5, 100), TRUE, TRUE)[1]
    ELSE xrp_update_hour_position(None, "xrp", R(5, 100), TRUE, TRUE)[1]

RaceInit ==
    /\ BotsIdle
    /\ call = NotRunning /\ bt = NotRunning /\ store = NotRunning /\ weather = NotRunning
    /\ dash = NotRunning
    /\ \E bot \in {"eth", "xrp"} : \E stored \in {None, Some(EarlierItem(bot))} :
        procs = [pc |-> "run", bot |-> bot, stored |-> stored,
                 invocation |-> [i \in Invocations |-> Started],
                 placed |-> <<>>]

RaceUnchanged == UNCHANGED <<bots, call, bt, store, weather, dash>>

\* get_item of get_hour_positions at the start of the handler
ReadPositions(i) ==
    /\ procs.pc = "run" /\ procs.invocation[i].pc = "start"
    /\ procs' = [procs EXCEPT !.invocation[i].pc = "read",
                              !.invocation[i].seen = procs.stored]
    /\ RaceUnchanged

\* the handler from the exposure check to the order, on the item it read
PlaceOrder(i) ==
    /\ procs.pc = "run" /\ procs.invocation[i].pc = "read"
    /\ \E e \in RaceEnvs(procs.bot) :
       \E result \in {IF procs.bot = "eth"
                      THEN eth_lambda_handler(e, procs.invocation[i].seen)
                      ELSE xrp_lambda_handler(e, procs.invocation[i].seen)} :
        IF result.status = "success"
        THEN procs' = [procs EXCEPT
                 !.invocation[i].pc = "ordered",
                 !.invocation[i].kelly_fraction = result.kelly[1].kelly_fraction,
                 !.placed = Append(@, result.kelly[1].kelly_fraction)]
        ELSE procs' = [procs EXCEPT !.invocation[i].pc = "done"]
    /\ RaceUnchanged

\* update_hour_position: its own get_item and the put_item
UpdatePosition(i) ==
    /\ procs.pc = "run" /\ procs.invocation[i].pc = "ordered"
    /\ \E read_ok \in BOOLEAN, put_ok \in BOOLEAN :
       \E item \in {IF procs.bot = "eth"
                    THEN eth_update_hour_position(procs.stored, "eth",
                             procs.invocation[i].kelly_fraction, read_ok, put_ok)
                    ELSE xrp_update_hour_position(procs.stored, "xrp",
                             procs.invocation[i].kelly_fraction, read_ok, put_ok)} :
        procs' = [procs EXCEPT
            !.invocation[i].pc = "done",
            !.stored = IF item = None THEN @ ELSE item]
    /\ RaceUnchanged

RaceNext ==
    \E i \in Invocations : ReadPositions(i) \/ PlaceOrder(i) \/ UpdatePosition(i)

SpecRace == RaceInit /\ [][RaceNext]_vars

RECURSIVE SumFractions(_)
SumFractions(fractions) ==
    IF fractions = <<>> THEN RInt(0)
    ELSE RAdd(Head(fractions), SumFractions(Tail(fractions)))

\* C20: for two invocations of the same bot (ETH or XRP) for the same hour
\* key, overlapping ones included, the Kelly fractions of the orders they
\* place sum to at most the bot's MAX_KELLY_FRACTION.
SameHourFractionsWithinCap ==
    procs.pc = "run"
    => RLe(SumFractions(procs.placed),
           IF procs.bot = "eth" THEN ETH_MAX_KELLY_FRACTION ELSE XRP_MAX_KELLY_FRACTION)

(***************************************************************************)
(* Further properties of the handlers.                                     *)
(***************************************************************************)
\* MAX_VOLATILITY_PCT of the bot invoked
MaxVolatilityOf(bot) ==
    CASE bot = "btc" -> BTC_MAX_VOLATILITY_PCT
      [] bot = "eth" -> ETH_MAX_VOLATILITY_PCT
      [] bot = "xrp" -> XRP_MAX_VOLATILITY_PCT
      [] bot = "range" -> RANGE_MAX_VOLATILITY_PCT

\* the invocation got as far as the volatility ceiling: inside the trading
\* window, balance read and sufficient, budget left, enough samples
ReachedVolatilityCheck ==
    /\ pc = "done" /\ ~outcome.raised /\ env.vol_data # None
    /\ outcome.status \notin {"outside_trading_window", "balance_error", "insufficient_funds",
                              "kelly_exhausted", "insufficient_vol_data", "dry_run_alert"}
    /\ outcome.vol_samples # None

\* C21: whenever the stored 15-minute volatility is at or above the bot's
\* MAX_VOLATILITY_PCT, an invocation inside the trading window answers
\* 'volatility_stop' with status code 200 and places no order.
HighVolatilityHaltsTrading ==
    (ReachedVolatilityCheck /\ env.vol_data[1][15].std >= MaxVolatilityOf(env.bot))
    => /\ outcome.status = "volatility_stop" /\ outcome.status_code = 200
       /\ outcome.create_order_calls = 0

(***************************************************************************)
(* Further properties of the backtest                                      *)
(***************************************************************************)
\* the trades of the day with the given action
TradesOf(action) == {k \in 1..Len(bt.trades) : bt.trades[k].action = action}

\* a day after the first has been simulated and a lot was added on it
ScaleInDay ==
    /\ bt.pc = "run" /\ bt.i > 1
    /\ TradesOf("SCALE-IN SHORT + CALL") # {}

\* the step bt -> bt' simulates a day after the first
LaterDayStep == bt.pc = "run" /\ bt.i >= 1 /\ bt'.i = bt.i + 1

\* the lots the buffer constraint allows on the day of the step, from the
\* cash after the day's expirations and the short value at the day's price
LotsAllowedOnStep ==
    LET price == bt'.results[1].price
        cash == bt.cash + expire_calls(bt.call_options, bt'.date, price).received
        available == cash - CASH_BUFFER_MULTIPLIER * sum_shares(bt.short_positions) * price
    IN  IF available > 0 THEN available \div (2 * price * LOT_SIZE) ELSE 0

\* C22: on any day after the first a scale-in lot is added only if the price
\* has dropped at least SCALE_IN_DROP_PCT (15%) from the last entry price and
\* the lot-rounded size the buffer constraint allows is at least one lot; the
\* last entry price becomes the day's price on a day a lot is added and is
\* unchanged on every day a scale-in is skipped.
ScaleInOnlyAfterDrop ==
    [][LaterDayStep =>
          LET price == bt'.results[1].price
              added == Len(bt'.short_positions) # Len(bt.short_positions)
          IN  /\ added =>
                    /\ bt.last_scale_in_price # None
                    /\ (bt.last_scale_in_price[1] - price) * 100
                           >= SCALE_IN_DROP_PCT * bt.last_scale_in_price[1]
                    /\ LotsAllowedOnStep >= 1
                    /\ bt'.short_positions
                           = Append(bt.short_positions,
                                    Position(LotsAllowedOnStep * LOT_SIZE, price, bt'.date))
                    /\ bt'.last_scale_in_price = Some(price)
              /\ ~added => bt'.last_scale_in_price = bt.last_scale_in_price]_vars

\* a scale-in day: the last entry price is the price of the day, below the
\* price of the first entry
ScaleInMovesLastEntryPrice ==
    /\ ScaleInDay
    /\ bt.last_scale_in_price = Some(bt.results[1].price)
    /\ bt.short_positions[1].entry_price > bt.results[1].price

\* the calls of a list that have reached their expiry on the given date
ExpiredOn(call_options, date) ==
    {k \in 1..Len(call_options) : call_options[k].expiry_date <= date}

RECURSIVE IntrinsicReceived(_, _, _)
\* what the calls with indices in ks pay at the given price
IntrinsicReceived(call_options, ks, price) ==
    IF ks = {} THEN 0
    ELSE LET k == CHOOSE x \in ks : TRUE
             c == call_options[k]
         IN  (IF price > c.strike THEN (price - c.strike) * c.contracts * 100 ELSE 0)
             + IntrinsicReceived(call_options, ks \ {k}, price)

\* the step bt -> bt' simulates a day
DayStep == bt.pc = "run" /\ bt'.i = bt.i + 1

\* C23: at the end of every simulated day no held call has expiry_date <= the
\* day's date; each call whose days-to-expiry is <= 0 is removed that day,
\* adding (price - strike) * contracts * 100 to cash if price > strike and
\* nothing otherwise, and one 'CALL EXPIRED' trade is logged per removed call.
ExpiredCallsRemovedAndPaid ==
    [][DayStep =>
          LET price == bt'.results[1].price
              gone == ExpiredOn(bt.call_options, bt'.date)
              expired_trades == {k \in 1..Len(bt'.trades) :
                                     bt'.trades[k].action = "CALL EXPIRED"}
              other_trades == {k \in 1..Len(bt'.trades) :
                                     bt'.trades[k].action # "CALL EXPIRED"}
          IN  /\ ExpiredOn(bt'.call_options, bt'.date) = {}
              /\ Cardinality(expired_trades) = Cardinality(gone)
              /\ Len(bt'.call_options) + Cardinality(gone)
                     = Len(bt.call_options)
                       + Len(bt'.short_positions) - Len(bt.short_positions)
              /\ \A k \in gone :
                     \E t \in expired_trades :
                         /\ bt'.trades[t].strike = bt.call_options[k].strike
                         /\ bt'.trades[t].itm = (price > bt.call_options[k].strike)
              /\ other_trades = {}
                     => bt'.cash = bt.cash + IntrinsicReceived(bt.call_options, gone, price)]_vars

\* a call expired in the money on the day: it is no longer held and its
\* intrinsic value has been received
CallExpiredInTheMoney ==
    /\ bt.pc = "run"
    /\ \E k \in TradesOf("CALL EXPIRED") : bt.trades[k].itm
    /\ bt.call_options = <<>>
    /\ bt.cash > INITIAL_CAPITAL

\* (new_premium - old_value) * contracts * 100 for a held call on a day
roll_cost(c, date, price, volatility) ==
    (black_scholes_call(price, (price * (100 + CALL_STRIKE_PREMIUM_PCT)) \div 100,
                        CALL_EXPIRY_DAYS, RISK_FREE_RATE, volatility)
     - black_scholes_call(price, c.strike, c.expiry_date - date, RISK_FREE_RATE, volatility))
    * c.contracts * 100

RECURSIVE SumOver(_, _)
SumOver(f, ks) ==
    IF ks = {} THEN 0
    ELSE LET k == CHOOSE x \in ks : TRUE IN f[k] + SumOver(f, ks \ {k})

\* the roll rule on the step bt -> bt', for calls with more than `after` and
\* at most ROLL_WITHIN days to expiry: the calls held into the roll pass are
\* those of bt not yet expired, in order; a rolled call is replaced in place
RollRuleOnStep(after) ==
    LET date == bt'.date
        price == bt'.results[1].price
        volatility == bt'.results[1].volatility
        held == SelectSeq(bt.call_options, LAMBDA c : c.expiry_date > date)
        cost == [j \in 1..Len(held) |-> roll_cost(held[j], date, price, volatility)]
        rolled == {j \in 1..Len(held) : bt'.call_options[j] # held[j]}
        roll_trades == {k \in 1..Len(bt'.trades) : bt'.trades[k].action = "ROLL CALL"}
        cash_before_rolls == bt'.cash + SumOver(cost, rolled)
        cash_at == [j \in 1..Len(held) |->
                       cash_before_rolls - SumOver(cost, {m \in rolled : m < j})]
    IN  /\ Len(bt'.call_options) >= Len(held)
        /\ Cardinality(roll_trades) = Cardinality(rolled)
        /\ \A j \in 1..Len(held) :
               LET days_to_expiry == held[j].expiry_date - date
               IN  /\ j \in rolled
                       <=> /\ after < days_to_expiry /\ days_to_expiry <= ROLL_WITHIN
                           /\ Abs(cost[j]) * 100 < cash_at[j] * ROLL_CASH_PCT
                   /\ j \in rolled
                       => /\ bt'.call_options[j].contracts = held[j].contracts
                          /\ bt'.call_options[j].shares_covered = held[j].shares_covered
                          /\ bt'.call_options[j].strike = 2 * price
                          /\ bt'.call_options[j].expiry_date = date + 365
        /\ Len(bt'.short_positions) = Len(bt.short_positions)
               => /\ bt'.short_positions = bt.short_positions
                  /\ Len(held) = Len(bt.call_options) => cash_before_rolls = bt.cash

CallNearExpiryNotRolled ==
    /\ bt.pc = "run"
    /\ TradesOf("ROLL CALL") = {}
    /\ \E j \in 1..Len(bt.call_options) :
           /\ bt.call_options[j].expiry_date - bt.date > 0
           /\ bt.call_options[j].expiry_date - bt.date <= 30

(***************************************************************************)
(* Further properties of the probability model                             *)
(***************************************************************************)
ModelVolatilityReturned == call.pc = "done" /\ call.fn = "btc_model_volatility"

\* C25: in the BTC hourly bot the volatility of the window selected by
\* get_dynamic_volatility (the largest of 15, 12, 10, 7, 5 minutes not
\* exceeding the minutes to settlement, or 5 when fewer than 5 remain) is used
\* by the probability model without further time scaling: the scaled
\* volatility equals the selected window's volatility.
WindowVolatilityUsedUnscaled ==
    ModelVolatilityReturned
    => LET minutes_to_hour == call.args[2]
           windows == {w \in {5, 7, 10, 12, 15} : w <= minutes_to_hour}
           selected == IF windows = {} THEN 5
                       ELSE CHOOSE w \in windows : \A v \in windows : v <= w
       IN  /\ call.result[1].window = selected
           /\ call.result[1].vol_std = call.args[1][selected].std
           /\ call.result[1].vol_scaled * 100 = call.result[1].vol_std * FP

\* C27: every shorted lot stays hedged: each entry (initial or scale-in) buys
\* exactly shares/100 call contracts at strike 2x the entry-day price, and at
\* the end of every simulated day the total number of held call contracts
\* times 100 equals the total short shares.
EveryShortLotHedged ==
    (bt.pc = "run" /\ bt.i >= 1)
    => /\ \A k \in TradesOf("INITIAL SHORT + CALL") \cup TradesOf("SCALE-IN SHORT + CALL") :
              /\ bt.trades[k].call_contracts * 100 = bt.trades[k].shares
              /\ bt.trades[k].call_strike = 2 * bt.trades[k].price
       /\ sum_contracts(bt.call_options) * 100 = sum_shares(bt.short_positions)
       /\ bt.results[1].num_call_contracts * 100 = bt.results[1].short_shares

\* the net_liquidation the day of the step would record had no lot been
\* opened on it: INITIAL_CAPITAL on the first day, and on a later day the
\* day run with the scale-in switched off
NetLiquidationWithoutEntry ==
    IF bt.i = 0 THEN INITIAL_CAPITAL
    ELSE run_backtest_day([bt EXCEPT !.last_scale_in_price = None], bt'.date,
                          bt'.results[1].price,
                          bt'.results[1].volatility).results[1].net_liquidation

\* C29: opening a position at market creates no profit or loss in the
\* equity: on the day the initial short and its hedge are opened the recorded
\* net_liquidation equals INITIAL_CAPITAL, and a scale-in leaves the day's
\* net_liquidation equal to what it would be without the scale-in.
OpeningCreatesNoProfit ==
    [][(DayStep /\ Len(bt'.short_positions) > Len(bt.short_positions))
           => bt'.results[1].net_liquidation = NetLiquidationWithoutEntry]_vars

\* nothing is held and nothing was ever entered
NeverEntered ==
    /\ bt.short_positions = <<>> /\ bt.call_options = <<>>
    /\ bt.last_scale_in_price = None
    /\ bt.cash = INITIAL_CAPITAL

\* C30: an initial short position can be opened only on the first simulated
\* day; if the day-1 sizing rounds to zero lots the entry is skipped,
\* last_scale_in_price stays unset and on every later day no short lot and no
\* hedge is opened, so that cash stays INITIAL_CAPITAL and the short shares
\* zero; short lots, once opened, are never reduced or closed.
InitialEntryOnlyOnFirstDay ==
    [][DayStep =>
          LET price == bt'.results[1].price
              initial_trades == {k \in 1..Len(bt'.trades) :
                                     bt'.trades[k].action = "INITIAL SHORT + CALL"}
          IN  /\ initial_trades # {} => bt.i = 0
              /\ (bt.i = 0 /\ INITIAL_CAPITAL \div (2 * price * LOT_SIZE) = 0)
                     => NeverEntered'
              /\ (bt.i >= 1 /\ NeverEntered) => NeverEntered' /\ bt'.trades = <<>>
              /\ (bt.i >= 1 /\ bt.short_positions = <<>>) => NeverEntered
              /\ Len(bt'.short_positions) >= Len(bt.short_positions)
              /\ SubSeq(bt'.short_positions, 1, Len(bt.short_positions))
                     = bt.short_positions]_vars

\* the run ends with nothing held after a first day too dear for one lot,
\* although the last day's price would have allowed an entry
RunEndsWithoutPosition ==
    /\ bt.pc = "run" /\ bt.i = BacktestDays
    /\ NeverEntered
    /\ bt.results[1].short_shares = 0
    /\ INITIAL_CAPITAL \div (2 * bt.results[1].price * LOT_SIZE) >= 1

(***************************************************************************)
(* Further properties of the hour item                                     *)
(***************************************************************************)
\* an exposure field of the stored hour item holds exactly the fraction f
Recorded(field, f) ==
    /\ positions # None
    /\ field \in DOMAIN positions[1]
    /\ RLe(item_get(positions[1], field), f) /\ RLe(f, item_get(positions[1], field))

\* C28: for any sequence of ETH and XRP invocations that place orders for
\* the same hour key the stored exposure record is exact after each update:
\* every per-asset field equals the sum of the Kelly fractions of that
\* asset's placed orders, total_exposure equals the sum over all assets, and
\* an update for one asset never changes or removes another asset's field.
HourRecordExact ==
    (/\ pc = "hour" /\ orders # <<>>
     /\ \A k \in 1..Len(orders) : orders[k].bot \in {"eth", "xrp"})
    => /\ Recorded("eth_exposure", SumKelly(orders, {"eth"}))
       /\ SumKelly(orders, {"xrp"}) # RInt(0)
              => Recorded("xrp_exposure", SumKelly(orders, {"xrp"}))
       /\ Recorded("btc_exposure", RInt(0))
       /\ Recorded("total_exposure", SumKelly(orders, {"eth", "xrp"}))

(***************************************************************************)
(* The dashboard's contract discovery (dashboard_api.py).  The module      *)
(* globals _contract_cache and _contract_cache_expiry live as long as the  *)
(* Lambda container; time is counted in minutes.                           *)
(***************************************************************************)
\* the cache's time to live: 300 seconds
CONTRACT_CACHE_TTL == 5

DashClockMax == 9

\* series_map of get_next_available_contract, for the assets of the model
SeriesOf(asset) == IF asset = "ETH" THEN "KXETHD" ELSE "KXBTCD"

\* the events Kalshi lists as open for a series: one per strike date, and
\* possibly one whose strike_date is the empty string (None)
StrikeDateInputs == {3, 8}

ListedInputs == SUBSET {Some(3), Some(8), None}

events_of(series, listed) ==
    {[event_ticker |-> <<series, d>>, strike_date |-> d] : d \in listed}

\* the answers of requests.get: a 200 reply with the open events, another
\* status, or an exception
KalshiReplies(series, listed) ==
    {[raised |-> FALSE, status_code |-> 200, events |-> events_of(series, listed)],
     [raised |-> FALSE, status_code |-> 500, events |-> {}],
     [raised |-> TRUE, status_code |-> 0, events |-> {}]}

\* the events with a strike_date later than now
future_events(events, now) ==
    {e \in events : e.strike_date # None /\ e.strike_date[1] > now}

\* future_events.sort(key=strike_date)[0]
soonest(events) ==
    CHOOSE e \in events : \A f \in events : e.strike_date[1] <= f.strike_date[1]

\* the body shared by get_next_available_contract and get_next_range_contract:
\* the tuple returned and the cache left behind
discover_contract(d, cache_key, reply) ==
    IF /\ d.cache[cache_key] # None
       /\ d.now < d.cache_expiry[cache_key]
    THEN [result |-> d.cache[cache_key][1], cache |-> d.cache,
          cache_expiry |-> d.cache_expiry, cached |-> TRUE]
    ELSE IF ~reply.raised /\ reply.status_code = 200
            /\ future_events(reply.events, d.now) # {}
    THEN LET first == soonest(future_events(reply.events, d.now))
             result == <<Some(first.event_ticker), first.strike_date>>
         IN  [result |-> result,
              cache |-> [d.cache EXCEPT ![cache_key] = Some(result)],
              cache_expiry |-> [d.cache_expiry EXCEPT
                                    ![cache_key] = d.now + CONTRACT_CACHE_TTL],
              cached |-> FALSE]
    ELSE [result |-> <<None, None>>, cache |-> d.cache,
          cache_expiry |-> d.cache_expiry, cached |-> FALSE]

get_next_available_contract(d, asset, reply) ==
    discover_contract(d, "contract_" \o asset, reply)

get_next_range_contract(d, reply) == discover_contract(d, "range_btc", reply)

CacheKeys == {"contract_BTC", "contract_ETH", "range_btc"}

DashInit ==
    /\ BotsIdle
    /\ call = NotRunning /\ bt = NotRunning /\ store = NotRunning /\ weather = NotRunning
    /\ procs = NotRunning
    /\ \E listed \in ListedInputs :
           dash = [pc |-> "run", now |-> 0, listed |-> listed,
                   cache |-> [k \in CacheKeys |-> None],
                   cache_expiry |-> [k \in CacheKeys |-> 0],
                   answer |-> None]

DashUnchanged == UNCHANGED <<bots, call, bt, store, weather, procs>>

\* the answer of a call, with the time of the call and what Kalshi listed
Answered(series, out) ==
    dash' = [dash EXCEPT !.cache = out.cache, !.cache_expiry = out.cache_expiry,
                         !.answer = Some([series |-> series, at |-> dash.now,
                                          result |-> out.result,
                                          cached |-> out.cached])]

\* a minute passes between two calls
DashTick ==
    /\ dash.pc = "run" /\ dash.now < DashClockMax
    /\ dash' = [dash EXCEPT !.now = dash.now + 1]
    /\ DashUnchanged

CallNextAvailableContract ==
    /\ dash.pc = "run"
    /\ \E asset \in {"BTC", "ETH"} :
       \E reply \in KalshiReplies(SeriesOf(asset), dash.listed) :
       \E out \in {get_next_available_contract(dash, asset, reply)} :
           Answered(SeriesOf(asset), out)
    /\ DashUnchanged

CallNextRangeContract ==
    /\ dash.pc = "run"
    /\ \E reply \in KalshiReplies("KXBTC", dash.listed) :
       \E out \in {get_next_range_contract(dash, reply)} :
           Answered("KXBTC", out)
    /\ DashUnchanged

DashNext == DashTick \/ CallNextAvailableContract \/ CallNextRangeContract

SpecDashboard == DashInit /\ [][DashNext]_vars

\* C26: every call of get_next_available_contract and get_next_range_contract
\* returns either (None, None) or the soonest open contract whose strike_date
\* is later than the time of the call, whatever calls and time went before,
\* including calls answered from the five-minute cache.
ContractAnswerStillOpen ==
    (dash.pc = "run" /\ dash.answer # None)
    => LET a == dash.answer[1]
           open == future_events(events_of(a.series, dash.listed), a.at)
       IN  \/ a.result = <<None, None>>
           \/ /\ a.result[2][1] > a.at
              /\ \E e \in open :
                     /\ a.result = <<Some(e.event_ticker), e.strike_date>>
                     /\ \A f \in open : e.strike_date[1] <= f.strike_date[1]

====
